---- MODULE Spec2Model ----
(***************************************************************************)
(* Workflow engine of interractai-backend: inbound message arbitration     *)
(* (web_chat / receive_message -> WorkflowEngine.trigger_workflow ->       *)
(* check_and_resume_execution), the Celery consumer process_node_async,    *)
(* the node executors of execute_node_logic and get_next_nodes.            *)
(*                                                                         *)
(* The database is the shared state.  A handler is split only at the       *)
(* awaits where another request or worker can observe or change the rows   *)
(* it works on: a SELECT and the later COMMIT of the same session are two  *)
(* steps, and the objects a session loaded keep their loaded values        *)
(* (the sessionmaker sets expire_on_commit=False).                         *)
(***************************************************************************)
EXTENDS Integers, Sequences, FiniteSets, Bags, TLC

\* ------------------------------------------------------------------ bounds
MaxMsgs == 3
MaxWorkers == 2
MaxTime == 3
MaxRestarts == 1

\* ------------------------------------------------------- values and inputs
None == "None"

Tenants == {"t1", "t2", "t3", "t4", "t5"}

\* A text is a sequence of characters; "" is the empty sequence.
EmptyText == << >>
TextKeyword == <<"h", "P">>
TextOther == <<"h">>

\* python str.lower() on the characters used here
LowerChar(c) == CASE c = "P" -> "p"
                  [] c = "H" -> "h"
                  [] c = "Q" -> "q"
                  [] c = "B" -> "b"
                  [] c = "N" -> "n"
                  [] OTHER -> c

Lower(s) == [i \in 1..Len(s) |-> LowerChar(s[i])]

\* python `k in m` for strings
Contains(k, m) ==
    \E i \in 1..(Len(m) + 1) :
        /\ i + Len(k) - 1 <= Len(m)
        /\ SubSeq(m, i, i + Len(k) - 1) = k

\* python str.startswith
StartsWith(m, k) == Len(k) <= Len(m) /\ SubSeq(m, 1, Len(k)) = k

\* The characters of the tenant and participant ids used here.  A participant
\* id is whatever the client sends; two of them contain a colon.
IdText(id) ==
    CASE id = "t1" -> <<"t", "1">>
      [] id = "t2" -> <<"t", "2">>
      [] id = "t3" -> <<"t", "3">>
      [] id = "t4" -> <<"t", "4">>
      [] id = "t5" -> <<"t", "5">>
      [] id = "u1" -> <<"u", "1">>
      [] id = "u2" -> <<"u", "2">>
      [] id = "t1:u1" -> <<"t", "1", ":", "u", "1">>
      [] id = "t2:u1" -> <<"t", "2", ":", "u", "1">>
      [] OTHER -> <<id>>

\* the conversation id before it was made composite: the participant id
ConvoIdUserOnly(business_id, user_id) == IdText(user_id)

\* convo_id = f"{business_id}:{user_id}"
ConvoId(business_id, user_id) == IdText(business_id) \o <<":">> \o IdText(user_id)

\* store_message: the Message row (its conversation is created when missing)
StoreMessage(business_id, user_id, sender, platform) ==
    [business_id |-> business_id, conversation_id |-> ConvoId(business_id, user_id),
     sender |-> sender, platform |-> platform]

\* python `a or b` for participant ids (None is falsy)
OrElse(a, b) == IF a # None THEN a ELSE b

\* python `a or b` for texts ("" is falsy)
OrElseText(a, b) == IF a # EmptyText THEN a ELSE b

\* python {**a, **b}
Merge(a, b) ==
    [k \in (DOMAIN a) \cup (DOMAIN b) |-> IF k \in DOMAIN b THEN b[k] ELSE a[k]]

EmptyDoc == [k \in {} |-> None]

\* detect_intent: the intent whose keyword the text holds ("p" stands for
\* the words of the pricing intent), else general
DetectIntent(text) ==
    IF Contains(<<"p">>, Lower(text)) THEN "pricing" ELSE "general"

\* trigger_data as web_chat builds it (message and message_body both set)
WebTrigger(user, text) ==
    [from_number |-> None, user_id |-> user, message |-> text,
     message_body |-> text, platform |-> "web", intent |-> DetectIntent(text)]

\* trigger_cmd as receive_message builds it (no "message" key)
WhatsAppTrigger(user, text) ==
    [from_number |-> user, user_id |-> None, message |-> EmptyText,
     message_body |-> text, platform |-> "whatsapp",
     intent |-> DetectIntent(text)]

\* trigger_payload as update_lead builds it (no message, no participant)
LeadTrigger(old_status, new_status) ==
    [from_number |-> None, user_id |-> None, message |-> EmptyText,
     message_body |-> EmptyText, platform |-> None,
     old_status |-> old_status, new_status |-> new_status]

\* Lead.status values
StatusNew == <<"n">>
StatusContacted == <<"c">>
StatusQualified == <<"q">>
StatusQualifiedUpper == <<"Q">>
StatusVip == <<"v">>

LeadStatuses == {StatusNew, StatusContacted, StatusQualified, StatusQualifiedUpper}

\* ------------------------------------------------- workflow definitions
\* Payloads as POSTed to create_workflow.  A trigger_config is a document
\* whose keys are a subset of {keyword, intent, status}.
KeywordConfig == [keyword |-> <<"p">>]

Node(id, type, config) == [id |-> id, type |-> type, config |-> config]

Edge(source, target, condition) ==
    [source |-> source, target |-> target, condition |-> condition]

NoConfig == [action_type |-> None]

ExtractEmail == [fields |-> {"email"}]

ExtractSlots == [fields |-> {"pending_slots"}]

SendConfig == [action_type |-> "send_message"]

ExistsEmail == [variable |-> "email", operator |-> "exists"]

BookingConfig == [appointment_type_id |-> "apt1"]

\* start -> wait_for_reply -> send
WfWait ==
    [name |-> "wait", business_id |-> "t1", trigger_type |-> "keyword",
     trigger_config |-> KeywordConfig,
     nodes |-> { Node("w1", "start", NoConfig),
                 Node("w2", "wait_for_reply", NoConfig),
                 Node("w3", "action", SendConfig) },
     edges |-> { Edge("w1", "w2", None), Edge("w2", "w3", None) }]

\* a flow that waits for a reply and goes on along an edge without a
\* condition; a second edge of the waiting node has one
WfReply ==
    [name |-> "reply", business_id |-> "t1", trigger_type |-> "keyword",
     trigger_config |-> KeywordConfig,
     nodes |-> { Node("r1", "start", NoConfig),
                 Node("r2", "wait_for_reply", NoConfig),
                 Node("r3", "action", NoConfig),
                 Node("r4", "action", NoConfig) },
     edges |-> { Edge("r1", "r2", None), Edge("r2", "r3", None),
                 Edge("r2", "r4", "true") }]

\* a flow of tenant t1 that waits for a reply: start -> wait_for_reply
WfAsk ==
    [name |-> "ask", business_id |-> "t1", trigger_type |-> "keyword",
     trigger_config |-> KeywordConfig,
     nodes |-> { Node("a1", "start", NoConfig),
                 Node("a2", "wait_for_reply", NoConfig) },
     edges |-> { Edge("a1", "a2", None) }]

\* a flow of tenant t2: start -> wait_for_reply
WfOther ==
    [name |-> "other", business_id |-> "t2", trigger_type |-> "keyword",
     trigger_config |-> KeywordConfig,
     nodes |-> { Node("o1", "start", NoConfig),
                 Node("o2", "wait_for_reply", NoConfig) },
     edges |-> { Edge("o1", "o2", None) }]

\* a definition without a start node (create_workflow stores it as it is)
WfNoStart ==
    [name |-> "nostart", business_id |-> "t2", trigger_type |-> "keyword",
     trigger_config |-> KeywordConfig,
     nodes |-> { Node("x1", "action", SendConfig) },
     edges |-> {}]

\* the flow of verify_workflows.py
WfLinear ==
    [name |-> "linear", business_id |-> "t1", trigger_type |-> "keyword",
     trigger_config |-> KeywordConfig,
     nodes |-> { Node("n1", "start", NoConfig),
                 Node("n2", "action", SendConfig),
                 Node("n3", "wait_for_reply", NoConfig),
                 Node("n4", "ai_extract", ExtractEmail),
                 Node("n5", "condition", ExistsEmail),
                 Node("n6", "action", SendConfig) },
     edges |-> { Edge("n1", "n2", None), Edge("n2", "n3", None),
                 Edge("n3", "n4", None), Edge("n4", "n5", None),
                 Edge("n5", "n6", "true") }]

\* two branches leave the start node: an extraction and a wait
WfParallel ==
    [name |-> "parallel", business_id |-> "t1", trigger_type |-> "keyword",
     trigger_config |-> KeywordConfig,
     nodes |-> { Node("p1", "start", NoConfig),
                 Node("p2", "ai_extract", ExtractEmail),
                 Node("p3", "wait_for_reply", NoConfig),
                 Node("p4", "action", SendConfig) },
     edges |-> { Edge("p1", "p2", None), Edge("p1", "p3", None),
                 Edge("p3", "p4", None) }]

\* start -> wait_for_reply -> ai_extract -> appointment_booking
WfBooking ==
    [name |-> "booking", business_id |-> "t1", trigger_type |-> "keyword",
     trigger_config |-> KeywordConfig,
     nodes |-> { Node("b1", "start", NoConfig),
                 Node("b2", "wait_for_reply", NoConfig),
                 Node("b3", "ai_extract", ExtractSlots),
                 Node("b4", "appointment_booking", BookingConfig) },
     edges |-> { Edge("b1", "b2", None), Edge("b2", "b3", None),
                 Edge("b3", "b4", None) }]

\* start -> appointment_booking, as test_scheduling_flow.py sets the node up
WfPropose ==
    [name |-> "propose", business_id |-> "t1", trigger_type |-> "keyword",
     trigger_config |-> KeywordConfig,
     nodes |-> { Node("q1", "start", NoConfig),
                 Node("q2", "appointment_booking", BookingConfig) },
     edges |-> { Edge("q1", "q2", None) }]

\* a delayed reminder: start -> time_delay -> send -> wait_for_reply
DelayConfig == [seconds |-> 2]

WfDelay ==
    [name |-> "delay", business_id |-> "t1", trigger_type |-> "keyword",
     trigger_config |-> KeywordConfig,
     nodes |-> { Node("d1", "start", NoConfig),
                 Node("d2", "time_delay", DelayConfig),
                 Node("d3", "action", SendConfig),
                 Node("d4", "wait_for_reply", NoConfig) },
     edges |-> { Edge("d1", "d2", None), Edge("d2", "d3", None),
                 Edge("d3", "d4", None) }]

\* a fan-out: start -> ai_extract -> wait_for_reply, and start -> ai_extract
WfFan ==
    [name |-> "fan", business_id |-> "t1", trigger_type |-> "keyword",
     trigger_config |-> KeywordConfig,
     nodes |-> { Node("f1", "start", NoConfig),
                 Node("f2", "ai_extract", ExtractEmail),
                 Node("f3", "ai_extract", ExtractSlots),
                 Node("f4", "wait_for_reply", NoConfig) },
     edges |-> { Edge("f1", "f2", None), Edge("f1", "f3", None),
                 Edge("f2", "f4", None) }]

\* a flow every message starts: start -> send -> wait_for_reply
WfSend ==
    [name |-> "send", business_id |-> "t1", trigger_type |-> "message_created",
     trigger_config |-> EmptyDoc,
     nodes |-> { Node("s1", "start", NoConfig),
                 Node("s2", "action", SendConfig),
                 Node("s3", "wait_for_reply", NoConfig) },
     edges |-> { Edge("s1", "s2", None), Edge("s2", "s3", None) }]

\* a flow started when a lead becomes qualified: start -> send
StatusConfig == [status |-> StatusQualified]

WfLead ==
    [name |-> "lead", business_id |-> "t1", trigger_type |-> "lead_event",
     trigger_config |-> StatusConfig,
     nodes |-> { Node("l1", "start", NoConfig),
                 Node("l2", "action", SendConfig) },
     edges |-> { Edge("l1", "l2", None) }]

\* a flow of the tenant on trial: start -> wait_for_reply
WfTrial ==
    [name |-> "trial", business_id |-> "t5", trigger_type |-> "keyword",
     trigger_config |-> KeywordConfig,
     nodes |-> { Node("r1", "start", NoConfig),
                 Node("r2", "wait_for_reply", NoConfig) },
     edges |-> { Edge("r1", "r2", None) }]

\* What a run starts with: the stored definitions, and the inbound messages
\* (tenant, trigger data) that may arrive.
ExtractBudget == [fields |-> {"budget"}]

BudgetConfig ==
    [variable |-> "budget", operator |-> "greater_than", value |-> "str 5000"]

VipConfig == [status |-> StatusVip]

\* the lead qualification workflow: the true edge of the condition leads to
\* the capture of a lead, the false edge to a reply
WfQualify ==
    [name |-> "qualify", business_id |-> "t1",
     trigger_type |-> "message_created", trigger_config |-> EmptyDoc,
     nodes |-> { Node("q1", "start", NoConfig),
                 Node("q2", "ai_extract", ExtractBudget),
                 Node("q3", "condition", BudgetConfig),
                 Node("q4", "lead_capture", VipConfig),
                 Node("q5", "action", SendConfig) },
     edges |-> { Edge("q1", "q2", None), Edge("q2", "q3", None),
                 Edge("q3", "q4", "true"), Edge("q3", "q5", "false") }]

\* a flow of tenant t1 that has a start node only
StartOnly(name, trigger_type, trigger_config, is_active) ==
    [name |-> name, business_id |-> "t1", trigger_type |-> trigger_type,
     trigger_config |-> trigger_config, is_active |-> is_active,
     nodes |-> { Node(name, "start", NoConfig) }, edges |-> {}]

\* an extraction with an unguarded and a guarded outgoing edge
WfGuarded ==
    [name |-> "guarded", business_id |-> "t1", trigger_type |-> "message_created",
     trigger_config |-> EmptyDoc,
     nodes |-> { Node("g1", "start", NoConfig),
                 Node("g2", "ai_extract", ExtractEmail),
                 Node("g3", "action", NoConfig),
                 Node("g4", "action", NoConfig) },
     edges |-> { Edge("g1", "g2", None), Edge("g2", "g3", None),
                 Edge("g2", "g4", "true") }]

User1Keyword == <<"t1", WebTrigger("u1", TextKeyword)>>
User1Other == <<"t1", WebTrigger("u1", TextOther)>>

ScenarioArbitration ==
    [defs |-> {WfWait, WfNoStart},
     inbound |-> { User1Keyword,
                   <<"t1", WebTrigger("u2", TextKeyword)>>,
                   <<"t1", WhatsAppTrigger("u1", TextOther)>>,
                   <<"t2", WebTrigger("u1", TextKeyword)>>,
                   <<"t3", WebTrigger("u1", TextKeyword)>> },
     budget |-> MaxMsgs, pool |-> MaxWorkers]

ScenarioResume ==
    [defs |-> {WfAsk, WfOther},
     inbound |-> { User1Keyword,
                   <<"t1", WebTrigger("u2", TextKeyword)>>,
                   <<"t2", WebTrigger("u1", TextKeyword)>> },
     budget |-> MaxMsgs, pool |-> MaxWorkers - 1]

ScenarioReply ==
    [defs |-> {WfReply}, inbound |-> {User1Keyword, User1Other},
     budget |-> MaxMsgs, pool |-> 1]

\* the workflows of two tenants, for the calls that name a workflow by id
ScenarioOwner ==
    [defs |-> {WfAsk, WfOther, WfNoStart}, inbound |-> {},
     budget |-> MaxMsgs, pool |-> 1]

ScenarioLinear ==
    [defs |-> {WfLinear}, inbound |-> {User1Keyword, User1Other},
     budget |-> MaxMsgs, pool |-> MaxWorkers]

ScenarioParallel ==
    [defs |-> {WfParallel}, inbound |-> {User1Keyword, User1Other},
     budget |-> MaxMsgs - 1, pool |-> MaxWorkers]

ScenarioBooking ==
    [defs |-> {WfBooking}, inbound |-> {User1Keyword, User1Other},
     budget |-> MaxMsgs, pool |-> MaxWorkers]

\* two participants of one tenant in the booking flow; a reply resumes
\* whatever its text is, so the replies are further keyword messages
ScenarioTwoBookers ==
    [defs |-> {WfBooking},
     inbound |-> { User1Keyword, <<"t1", WebTrigger("u2", TextKeyword)>> },
     budget |-> MaxMsgs + 1, pool |-> MaxWorkers - 1]

ScenarioPropose ==
    [defs |-> {WfPropose, WfOther},
     inbound |-> { User1Keyword, User1Other,
                   <<"t2", WebTrigger("u1", TextKeyword)>> },
     budget |-> MaxMsgs, pool |-> MaxWorkers]

ScenarioDelay ==
    [defs |-> {WfDelay}, inbound |-> {User1Keyword},
     budget |-> MaxMsgs - 1, pool |-> MaxWorkers]

ScenarioFan ==
    [defs |-> {WfFan}, inbound |-> {User1Keyword},
     budget |-> MaxMsgs - 1, pool |-> MaxWorkers]

ScenarioSend ==
    [defs |-> {WfSend},
     inbound |-> { <<"t1", WhatsAppTrigger("u1", TextOther)>>, User1Other },
     budget |-> MaxMsgs - 1, pool |-> MaxWorkers]

ScenarioLead ==
    [defs |-> {WfLead, WfOther}, inbound |-> {},
     budget |-> MaxMsgs - 1, pool |-> MaxWorkers - 1]

\* tenants without access: t3 expired, t4 suspended, t5 on a trial that ends
ScenarioBlocked ==
    [defs |-> {WfTrial},
     inbound |-> { <<"t5", WebTrigger("u1", TextKeyword)>>,
                   <<"t3", WebTrigger("u1", TextKeyword)>>,
                   <<"t4", WhatsAppTrigger("u1", TextOther)>> },
     budget |-> MaxMsgs - 1, pool |-> 1]

\* one participant id with two tenants, and a participant id with a colon
ScenarioChat ==
    [defs |-> {WfAsk},
     inbound |-> { User1Keyword,
                   <<"t2", WebTrigger("u1", TextKeyword)>>,
                   <<"t1", WebTrigger("t1:u1", TextOther)>> },
     budget |-> MaxMsgs - 1, pool |-> 1]

\* two participants of one tenant reach the qualification workflow
ScenarioQualify ==
    [defs |-> {WfQualify},
     inbound |-> { User1Other, <<"t1", WhatsAppTrigger("u2", TextOther)>> },
     budget |-> MaxMsgs - 1, pool |-> 1]

\* the keyword flow, reached from the web and from WhatsApp
ScenarioKeyword ==
    [defs |-> {WfAsk},
     inbound |-> { User1Keyword, User1Other,
                   <<"t1", WhatsAppTrigger("u2", TextKeyword)>>,
                   <<"t1", WhatsAppTrigger("u2", TextOther)>> },
     budget |-> MaxMsgs - 1, pool |-> 1]

\* messages and lead updates meet the workflows of two tenants: flows
\* started by a keyword, by an intent, by a keyword together with an intent,
\* by any message, by a lead status, by any change of a lead status, and one
\* that is switched off
ScenarioTrigger ==
    [defs |-> {WfAsk, WfOther,
               StartOnly("intent", "intent", [intent |-> "pricing"], TRUE),
               StartOnly("both", "message_created",
                         [keyword |-> <<"H">>, intent |-> "pricing"], TRUE),
               StartOnly("any", "keyword", EmptyDoc, TRUE),
               StartOnly("inactive", "message_created", EmptyDoc, FALSE),
               StartOnly("status", "lead_event", StatusConfig, TRUE),
               StartOnly("anylead", "lead_status_update", EmptyDoc, TRUE)},
     inbound |-> { User1Keyword, User1Other,
                   <<"t1", WhatsAppTrigger("u2", TextKeyword)>>,
                   <<"t2", WebTrigger("u1", TextKeyword)>> },
     budget |-> MaxMsgs - 1, pool |-> 1]

\* one call of get_available_slots
ScenarioSlots == [defs |-> {}, inbound |-> {}, budget |-> 1, pool |-> 1]

\* the leads the CRM writes to: one with a phone, one without any contact,
\* one with a conversation only, one of another business
ContactLeads ==
    <<[business_id |-> "t1", status |-> StatusNew, value |-> 10000,
       tags |-> <<"hot">>, phone |-> "p1", conversation_id |-> None],
      [business_id |-> "t1", status |-> StatusNew, value |-> 10000,
       tags |-> <<"hot">>, phone |-> None, conversation_id |-> None],
      [business_id |-> "t1", status |-> StatusNew, value |-> 10000,
       tags |-> <<"hot">>, phone |-> None, conversation_id |-> "c3"],
      [business_id |-> "t2", status |-> StatusNew, value |-> 10000,
       tags |-> <<"hot">>, phone |-> "p4", conversation_id |-> "c4"]>>

ScenarioMessage ==
    [defs |-> {}, inbound |-> {}, budget |-> MaxMsgs - 1, pool |-> 1,
     leads |-> ContactLeads]

ScenarioGuarded ==
    [defs |-> {WfGuarded},
     inbound |-> { User1Other, <<"t1", WhatsAppTrigger("u2", TextOther)>> },
     budget |-> MaxMsgs - 1, pool |-> 1]

Scenarios ==
    { ScenarioArbitration, ScenarioResume, ScenarioLinear, ScenarioParallel,
      ScenarioBooking, ScenarioPropose, ScenarioTwoBookers, ScenarioDelay,
      ScenarioFan, ScenarioSend, ScenarioLead, ScenarioBlocked, ScenarioChat,
      ScenarioQualify, ScenarioGuarded, ScenarioKeyword, ScenarioTrigger,
      ScenarioSlots, ScenarioMessage, ScenarioReply, ScenarioOwner }

\* AppointmentType rows (id, business)
AppointmentTypes == { [id |-> "apt1", business_id |-> "t1"] }

\* ------------------------------------------------------------------ state
VARIABLES
    business,     \* Business.status per tenant
    workflows,    \* Workflow rows
    nodes,        \* WorkflowNode rows
    edges,        \* WorkflowEdge rows
    execs,        \* WorkflowExecution rows, by id (index)
    steps,        \* ExecutionStep rows
    queue,        \* Celery queue of process_node tasks (a bag)
    inflight,     \* process_node_async activations between their awaits
    reqs,         \* inbound requests (web_chat / receive_message), by arrival
    messages,     \* Message rows (a bag)
    appointments, \* Appointment rows
    inbound,      \* the inbound messages that may arrive (fixed by Init)
    budget,       \* how many more inbound messages may arrive
    pool,         \* the number of Celery worker processes (fixed by Init)
    leads,        \* Lead rows, by id
    now,          \* the clock, in seconds
    restarts,     \* how often the worker processes were restarted
    activities,   \* LeadActivity rows, by id
    evals         \* the results of the direct calls of executors

vars == <<business, workflows, nodes, edges, execs, steps, queue, inflight,
          reqs, messages, appointments, inbound, budget, pool, leads, now, restarts,
          activities, evals>>

NoStep == <<0, None, 0>>

NoPayload == [node_id |-> None, step_id |-> NoStep]

\* create_workflow: the rows one payload produces.  Every node is stored;
\* an edge is stored when both its ends are nodes of the payload.
WorkflowRow(wd) ==
    [id |-> wd.name, business_id |-> wd.business_id,
     is_active |-> IF "is_active" \in DOMAIN wd THEN wd.is_active ELSE TRUE,
     trigger_type |-> wd.trigger_type, trigger_config |-> wd.trigger_config]

NodeRows(wd) ==
    { [id |-> n.id, workflow_id |-> wd.name, type |-> n.type, config |-> n.config]
        : n \in wd.nodes }

EdgeRows(wd) ==
    { [workflow_id |-> wd.name, source_id |-> e.source, target_id |-> e.target,
       condition_value |-> e.condition]
        : e \in { x \in wd.edges :
                    /\ x.source \in { n.id : n \in wd.nodes }
                    /\ x.target \in { n.id : n \in wd.nodes } } }

InitWith(scenarios) ==
    /\ business = [t \in Tenants |->
                      CASE t = "t3" -> "expired"
                        [] t = "t4" -> "suspended"
                        [] t = "t5" -> "trial"
                        [] OTHER -> "active"]
    /\ \E sc \in scenarios :
        /\ workflows = { WorkflowRow(wd) : wd \in sc.defs }
        /\ nodes = UNION { NodeRows(wd) : wd \in sc.defs }
        /\ edges = UNION { EdgeRows(wd) : wd \in sc.defs }
        /\ inbound = sc.inbound
        /\ budget = sc.budget
        /\ pool = sc.pool
        /\ leads = IF "leads" \in DOMAIN sc THEN sc.leads
                   ELSE [l \in {1} |->
                           [business_id |-> "t1", status |-> StatusNew,
                            value |-> 10000, tags |-> <<"hot">>]]
    /\ execs = << >>
    /\ steps = {}
    /\ queue = EmptyBag
    /\ inflight = {}
    /\ reqs = << >>
    /\ messages = EmptyBag
    /\ appointments = << >>
    /\ now = 0
    /\ restarts = 0
    /\ activities = << >>
    /\ evals = {}

Init == InitWith(Scenarios)

\* ------------------------------------------------------ arbitration
\* check_subscription_access: no access for an expired or suspended business
\* Business.trial_end_at of the tenant on trial
TrialEnd == 1

TrialOver(bid) == business[bid] = "trial" /\ now > TrialEnd

\* check_subscription_access: a trial that is over is marked expired
SubscriptionStatus(bid) == IF TrialOver(bid) THEN "expired" ELSE business[bid]

CheckSubscriptionAccessNotExpired(bid) ==
    /\ bid \in DOMAIN business
    /\ business[bid] # "expired"
    /\ ~TrialOver(bid)

CheckSubscriptionAccess(bid) ==
    /\ bid \in DOMAIN business
    /\ business[bid] \notin {"expired", "suspended"}
    /\ ~TrialOver(bid)

\* user_identifier = trigger_data.get("from_number") or trigger_data.get("user_id")
UserIdentifier(trigger_data) ==
    OrElse(trigger_data.from_number, trigger_data.user_id)

\* the participant an execution was triggered by
ExUser(exc) ==
    IF "trigger" \in DOMAIN exc.context_data
    THEN OrElse(exc.context_data["trigger"].from_number,
                exc.context_data["trigger"].user_id)
    ELSE None

CommittedExecs == { e \in 1..Len(execs) : execs[e].committed /\ ~execs[e].deleted }

\* the filter without the business_id condition of the SELECT
ResumeCandidatesAnyBusiness(business_id, trigger_data) ==
    { e \in CommittedExecs :
        /\ execs[e].status = "suspended"
        /\ ExUser(execs[e]) = UserIdentifier(trigger_data) }

\* the SELECT without the Python-side filter on the user
ResumeCandidatesAnyUser(business_id, trigger_data) ==
    { e \in CommittedExecs :
        /\ execs[e].business_id = business_id
        /\ execs[e].status = "suspended" }

\* check_and_resume_execution, the SELECT and the Python-side filter: the
\* suspended executions of the business that belong to this user
ResumeCandidates(business_id, trigger_data) ==
    { e \in CommittedExecs :
        /\ execs[e].business_id = business_id
        /\ execs[e].status = "suspended"
        /\ ExUser(execs[e]) = UserIdentifier(trigger_data) }

\* _check_trigger_match
CheckTriggerMatch(config, data) ==
    IF DOMAIN config = {} THEN TRUE
    ELSE /\ ("keyword" \in DOMAIN config =>
                Contains(Lower(config.keyword), Lower(data.message)))
         /\ ("intent" \in DOMAIN config =>
                ("intent" \in DOMAIN data /\ data.intent = config.intent))
         /\ ("status" \in DOMAIN config =>
                ("new_status" \in DOMAIN data
                 /\ Lower(data.new_status) = Lower(config.status)))

\* trigger_workflow: target_types for the event
TargetTypes(trigger_type) ==
    {trigger_type} \cup
        (CASE trigger_type = "message_created" -> {"keyword", "intent"}
           [] trigger_type = "lead_status_update" -> {"lead_event"}
           [] OTHER -> {})

\* trigger_workflow: the active workflows of the business that match
MatchingWorkflows(business_id, trigger_type, trigger_data) ==
    { wf \in workflows :
        /\ wf.business_id = business_id
        /\ wf.is_active
        /\ wf.trigger_type \in TargetTypes(trigger_type)
        /\ CheckTriggerMatch(wf.trigger_config, trigger_data) }

StartNodes(wf_id) == { n \in nodes : n.workflow_id = wf_id /\ n.type = "start" }

\* get_next_nodes: one entry for each outgoing edge whose guard is absent or
\* empty, or equals str(output.get("condition_eval")), and whose target node
\* exists; str(None) is "None".  The result is the bag of the targets.
CondEval(output) ==
    IF "condition_eval" \in DOMAIN output THEN output["condition_eval"] ELSE "None"

Guarded(x) == x.condition_value # None /\ x.condition_value # ""

SelectedEdges(node_id, output) ==
    { x \in edges :
        /\ x.source_id = node_id
        /\ (Guarded(x) => CondEval(output) = x.condition_value)
        /\ \E n \in nodes : n.id = x.target_id }

GetNextNodesAll(node_id, output) ==
    LET selected == { x \in edges : x.source_id = node_id }
    IN [n \in { x.target_id : x \in selected } |->
            Cardinality({ x \in selected : x.target_id = n })]

GetNextNodes(node_id, output) ==
    LET selected == SelectedEdges(node_id, output)
    IN [n \in { x.target_id : x \in selected } |->
            Cardinality({ x \in selected : x.target_id = n })]

Task(execution_id, node_id) ==
    [execution_id |-> execution_id, node_id |-> node_id, eta |-> 0]

TasksFor(execution_id, node_ids) ==
    SetToBag({ Task(execution_id, n) : n \in node_ids })

\* one task for each entry of a bag of nodes
TasksOf(execution_id, next_nodes, eta) ==
    [t \in { [Task(execution_id, n) EXCEPT !.eta = eta] : n \in DOMAIN next_nodes }
        |-> next_nodes[t.node_id]]

\* a set as a sequence, in a fixed order
RECURSIVE SetToSeq(_)
SetToSeq(S) ==
    IF S = {} THEN << >>
    ELSE LET x == CHOOSE y \in S : TRUE IN <<x>> \o SetToSeq(S \ {x})

NewExecution(wf, business_id, trigger_data) ==
    [workflow_id |-> wf.id, business_id |-> business_id, status |-> "running",
     context_data |-> [trigger |-> trigger_data, business_id |-> business_id],
     resume_payload |-> NoPayload, completed_at |-> 0, committed |-> FALSE,
     deleted |-> FALSE]

NewRequest(business_id, trigger_data) ==
    [business_id |-> business_id, trigger |-> trigger_data, pc |-> "received",
     candidates |-> {}, target |-> 0, loaded |-> EmptyDoc, payload |-> NoPayload,
     created |-> {}, returned |-> {}, resumed |-> FALSE,
     fallback |-> FALSE, blocked |-> FALSE]

\* The unit of work of a session: an attribute is part of the UPDATE only
\* when the value assigned differs from the value the session loaded.
Written(new, loaded, stored) == IF new # loaded THEN new ELSE stored

\* trigger_workflow, the loop over the matching workflows: an execution row
\* is added to the session for each (not yet committed), and the start-node
\* task of each is sent to the broker at once.  The rows, the tasks, the ids
\* of the rows and the ids the call returns (a row without a start node is
\* added but not returned).
TriggerLoop(business_id, trigger_type, trigger_data) ==
    LET wfs == SetToSeq(MatchingWorkflows(business_id, trigger_type,
                                          trigger_data))
    IN [rows |-> [i \in 1..Len(wfs) |->
                    NewExecution(wfs[i], business_id, trigger_data)],
        tasks |-> SetToBag(UNION {
                    { Task(Len(execs) + i, sn.id) : sn \in StartNodes(wfs[i].id) }
                        : i \in 1..Len(wfs) }),
        created |-> { Len(execs) + i : i \in 1..Len(wfs) },
        returned |-> { Len(execs) + i : i \in
                         { j \in 1..Len(wfs) : StartNodes(wfs[j].id) # {} } }]

StartWorkflows(business_id, trigger_data) ==
    TriggerLoop(business_id, "message_created", trigger_data)

\* web_chat / receive_message up to the first write another request or a
\* worker can see: subscription gate, store the customer message, look for a
\* suspension (check_and_resume_execution's SELECT); without one, the loop
\* of trigger_workflow, which reads only the workflow definitions
Receive(business_id, trigger_data) ==
    /\ budget > 0
    /\ budget' = budget - 1
    /\ business' = [business EXCEPT ![business_id] = SubscriptionStatus(business_id)]
    /\ LET r == NewRequest(business_id, trigger_data)
           user == UserIdentifier(trigger_data)
           cands == ResumeCandidates(business_id, trigger_data)
           new == StartWorkflows(business_id, trigger_data)
       IN IF ~CheckSubscriptionAccess(business_id)
          THEN /\ reqs' = Append(reqs, [r EXCEPT !.pc = "done", !.blocked = TRUE])
               /\ UNCHANGED <<messages, execs, queue>>
          ELSE /\ messages' = messages (+) SetToBag({
                     StoreMessage(business_id, user, "customer",
                                  trigger_data.platform)})
               /\ IF user # None /\ cands # {}
                  THEN /\ \E e \in cands :
                            reqs' = Append(reqs,
                               [r EXCEPT !.pc = "resume", !.candidates = cands,
                                         !.target = e,
                                         !.loaded = execs[e].context_data,
                                         !.payload = execs[e].resume_payload])
                       /\ UNCHANGED <<execs, queue>>
                  ELSE /\ reqs' = Append(reqs,
                               [r EXCEPT !.pc = "commit",
                                         !.created = new.created,
                                         !.returned = new.returned])
                       /\ execs' = execs \o new.rows
                       /\ queue' = queue (+) new.tasks
    /\ UNCHANGED <<evals, activities, leads, now, restarts, workflows, nodes, edges, steps, inflight,
                   appointments, inbound, pool>>

\* check_and_resume_execution from the merge to the return: write the merged
\* context, status running and a cleared resume_payload, then dispatch the
\* successors of the resume node with output {"user_reply": body}
ResumeCommit(r) ==
    /\ r \in 1..Len(reqs)
    /\ reqs[r].pc = "resume"
    /\ LET rq == reqs[r]
           e == rq.target
           message_body == OrElseText(rq.trigger.message_body, rq.trigger.message)
           resume_data == [latest_reply |-> message_body,
                           latest_trigger |-> rq.trigger]
           resume_node_id == rq.payload.node_id
           resumed == [execs EXCEPT ![e] =
                [@ EXCEPT !.context_data =
                              Written(Merge(rq.loaded, resume_data), rq.loaded, @),
                          !.status = "running",
                          !.resume_payload = NoPayload]]
           new == StartWorkflows(rq.business_id, rq.trigger)
       IN IF resume_node_id = None
          THEN \* nothing to resume at: the caller goes on to trigger_workflow's loop
               /\ execs' = resumed \o new.rows
               /\ queue' = queue (+) new.tasks
               /\ reqs' = [reqs EXCEPT ![r] =
                     [@ EXCEPT !.pc = "commit", !.resumed = TRUE,
                               !.created = new.created,
                               !.returned = new.returned]]
          ELSE /\ execs' = resumed
               /\ queue' = queue (+)
                     (IF \E n \in nodes : n.id = resume_node_id
                      THEN TasksOf(e, GetNextNodes(resume_node_id,
                                         [user_reply |-> message_body]), 0)
                      ELSE EmptyBag)
               /\ reqs' = [reqs EXCEPT ![r] =
                     [@ EXCEPT !.pc = "done", !.resumed = TRUE]]
    /\ UNCHANGED <<evals, activities, leads, now, restarts, business, workflows, nodes, edges, steps, inflight, messages,
                   appointments, inbound, budget, pool>>

\* trigger_workflow's commit and the caller's arbitration: a non-empty list
\* suppresses the default AI; an empty one is answered by generate_response,
\* whose reply is stored as an agent message
Commit(r) ==
    /\ r \in 1..Len(reqs)
    /\ reqs[r].pc = "commit"
    /\ LET rq == reqs[r] IN
        /\ execs' = [e \in 1..Len(execs) |->
                IF e \in rq.created THEN [execs[e] EXCEPT !.committed = TRUE]
                ELSE execs[e]]
        /\ IF rq.returned # {}
           THEN /\ reqs' = [reqs EXCEPT ![r] = [@ EXCEPT !.pc = "done"]]
                /\ UNCHANGED messages
           ELSE /\ reqs' = [reqs EXCEPT ![r] =
                      [@ EXCEPT !.pc = "done", !.fallback = TRUE]]
                /\ messages' = messages (+) SetToBag({
                      StoreMessage(rq.business_id, UserIdentifier(rq.trigger),
                                   "agent", rq.trigger.platform)})
    /\ UNCHANGED <<evals, activities, leads, now, restarts, business, workflows, nodes, edges, steps, queue, inflight,
                   appointments, inbound, budget, pool>>

\* update_lead: the status is changed when the updates name another one
LeadChangesAlways(lead, updates) == "status" \in DOMAIN updates

LeadChanges(lead, updates) ==
    "status" \in DOMAIN updates /\ updates.status # lead.status

FieldChangedAlways(lead, updates, field) == field \in DOMAIN updates

\* update_lead: a tracked field is in the update with a value that differs
\* from the stored one
FieldChanged(lead, updates, field) ==
    field \in DOMAIN updates /\ updates[field] # lead[field]

TrackedFields == <<"status", "value", "tags">>

\* f"{field}_change"
ChangeType(field) ==
    CASE field = "status" -> "status_change"
      [] field = "value" -> "value_change"
      [] field = "tags" -> "tags_change"

\* update_lead: the changes of the tracked fields, in the order of the checks
Changes(lead, updates) ==
    LET changed == SelectSeq(TrackedFields,
                             LAMBDA f : FieldChanged(lead, updates, f))
    IN [i \in 1..Len(changed) |->
          [field |-> changed[i], old |-> lead[changed[i]],
           new |-> updates[changed[i]]]]

\* update_lead up to trigger_workflow's commit: nothing for an unknown lead
\* or the lead of another business; the updated fields and one LeadActivity
\* for each change are committed, and for a changed status
\* trigger_workflow("lead_status_update") adds its executions and sends their
\* start tasks.  The call is recorded as a request, with the update and the
\* lead as it was loaded.
UpdateLead(business_id, lead_id, updates) ==
    /\ budget > 0
    /\ budget' = budget - 1
    /\ LET known == lead_id \in DOMAIN leads /\ leads[lead_id].business_id = business_id
           lead == leads[lead_id]
           changes == IF known THEN Changes(lead, updates) ELSE << >>
           changed == known /\ LeadChanges(lead, updates)
           payload == IF changed THEN LeadTrigger(lead.status, updates.status)
                      ELSE LeadTrigger(EmptyText, EmptyText)
           r == NewRequest(business_id, payload)
                    @@ [updates |-> updates, lead |-> lead, known |-> known]
           new == TriggerLoop(business_id, "lead_status_update", payload)
       IN /\ leads' =
                IF known
                THEN [leads EXCEPT ![lead_id] =
                        [f \in DOMAIN lead |->
                            IF f \in DOMAIN updates THEN updates[f] ELSE lead[f]]]
                ELSE leads
          /\ activities' = activities \o
                [i \in 1..Len(changes) |->
                    [lead_id |-> lead_id, business_id |-> business_id,
                     type |-> ChangeType(changes[i].field),
                     content |-> changes[i], call |-> Len(reqs) + 1]]
          /\ IF changed
             THEN /\ execs' = execs \o new.rows
                  /\ queue' = queue (+) new.tasks
                  /\ reqs' = Append(reqs, [r EXCEPT !.pc = "lead_commit",
                                                    !.created = new.created,
                                                    !.returned = new.returned])
             ELSE /\ reqs' = Append(reqs, [r EXCEPT !.pc = "done"])
                  /\ UNCHANGED <<execs, queue>>
    /\ UNCHANGED <<evals, now, restarts, business, workflows, nodes, edges, steps,
                   inflight, messages, appointments, inbound, pool>>

\* trigger_workflow's commit for update_lead, which has no reply to arbitrate
LeadCommit(r) ==
    /\ r \in 1..Len(reqs)
    /\ reqs[r].pc = "lead_commit"
    /\ execs' = [e \in 1..Len(execs) |->
            IF e \in reqs[r].created THEN [execs[e] EXCEPT !.committed = TRUE]
            ELSE execs[e]]
    /\ reqs' = [reqs EXCEPT ![r] = [@ EXCEPT !.pc = "done"]]
    /\ UNCHANGED <<evals, activities, leads, now, restarts, business, workflows, nodes, edges,
                   steps, queue, inflight, messages, appointments, inbound,
                   budget, pool>>

\* get_chat_history: the Message rows of the business in the conversation;
\* a user_id with a colon that starts with the business id is taken as the
\* conversation id itself
GetChatHistory(business_id, user_id) ==
    LET convo_id == IF /\ Contains(<<":">>, IdText(user_id))
                       /\ StartsWith(IdText(user_id), IdText(business_id))
                    THEN IdText(user_id)
                    ELSE ConvoId(business_id, user_id)
    IN { m \in BagToSet(messages) :
           m.business_id = business_id /\ m.conversation_id = convo_id }

\* ------------------------------------------------------- node executors
\* python dict.get(k) with a default
\* ------------------------------------------------ values of a condition
\* The JSON values a condition reads, as atoms: an int, a string, an empty
\* list, and None for a missing value.
Ints == {"int 10000", "int 1000"}
Lists == {"list []"}

\* python str(v)
PyStr(v) ==
    CASE v = "int 10000" -> <<"1", "0", "0", "0", "0">>
      [] v = "int 1000" -> <<"1", "0", "0", "0">>
      [] v = "str 5000" -> <<"5", "0", "0", "0">>
      [] v = "str $10,000" -> <<"$", "1", "0", ",", "0", "0", "0">>
      [] v = "str 900" -> <<"9", "0", "0">>
      [] v = "str 1.2.3" -> <<"1", ".", "2", ".", "3">>
      [] v = "str 1.10" -> <<"1", ".", "1", "0">>
      [] v = "str Hack" -> <<"H", "a", "c", "k">>
      [] v = "str b" -> <<"b">>
      [] v = "str a" -> <<"a">>
      [] v = "str B" -> <<"B">>
      [] v = "str " -> << >>
      [] v = "list []" -> <<"[", "]">>
      [] v = None -> <<"N", "o", "n", "e">>

\* the characters in the order of their code points
CodePoints ==
    <<"$", ",", ".", "0", "1", "2", "3", "5", "9", "B", "N", "[", "]",
      "a", "b", "e", "n", "o">>

Ord(c) == CHOOSE i \in 1..Len(CodePoints) : CodePoints[i] = c

Digits == <<"0", "1", "2", "3", "4", "5", "6", "7", "8", "9">>

IsDigit(c) == \E i \in 1..Len(Digits) : Digits[i] = c

DigitValue(c) == (CHOOSE i \in 1..Len(Digits) : Digits[i] = c) - 1

\* python a > b for strings
RECURSIVE StrGreater(_, _)
StrGreater(a, b) ==
    IF a = << >> THEN FALSE
    ELSE IF b = << >> THEN TRUE
    ELSE IF Head(a) # Head(b) THEN Ord(Head(a)) > Ord(Head(b))
    ELSE StrGreater(Tail(a), Tail(b))

\* re.sub(r'[^\d.]', '', s)
IsNumeric(c) == IsDigit(c) \/ c = "."
Cleaned(s) == SelectSeq(s, IsNumeric)

IsDot(c) == c = "."

RECURSIVE Pow10(_)
Pow10(n) == IF n = 0 THEN 1 ELSE 10 * Pow10(n - 1)

RECURSIVE DigitsValue(_)
DigitsValue(s) ==
    IF s = << >> THEN 0
    ELSE 10 * DigitsValue(SubSeq(s, 1, Len(s) - 1)) + DigitValue(s[Len(s)])

\* float(s) fails on more than one dot and on a text without a digit
FloatFails(s) ==
    Len(SelectSeq(s, IsDot)) > 1 \/ SelectSeq(s, IsDigit) = << >>

\* float(s) in hundredths, for a text with at most two decimals
Float(s) ==
    LET dot == IF \E i \in 1..Len(s) : s[i] = "."
               THEN CHOOSE i \in 1..Len(s) : s[i] = "."
               ELSE Len(s) + 1
        decimals == IF dot > Len(s) THEN 0 ELSE Len(s) - dot
    IN DigitsValue(SelectSeq(s, IsDigit)) * Pow10(2 - decimals)

CleanNumStrict(v) ==
    IF v \in Ints THEN Float(PyStr(v))
    ELSE LET cleaned == Cleaned(PyStr(v))
         IN IF cleaned = << >> \/ FloatFails(cleaned) THEN -1
            ELSE Float(cleaned)

\* clean_num: a number as it is; any other value through str, stripped of
\* all but digits and dots, 0.0 when nothing is left.  -1 stands for the
\* ValueError of float.
CleanNum(v) ==
    IF v \in Ints THEN Float(PyStr(v))
    ELSE LET cleaned == Cleaned(PyStr(v))
         IN IF cleaned = << >> THEN 0
            ELSE IF FloatFails(cleaned) THEN -1
            ELSE Float(cleaned)

Get(doc, k, default) == IF k \in DOMAIN doc THEN doc[k] ELSE default

NoTrigger == [from_number |-> None, user_id |-> None]

\* get_context_value for a key without dots: the root key, else trigger[key]
GetContextValue(context, key) ==
    IF key \in DOMAIN context /\ context[key] # None THEN context[key]
    ELSE LET trigger == Get(context, "trigger", NoTrigger)
         IN IF key \in DOMAIN trigger THEN trigger[key] ELSE None

Result(kind, doc, stored, booked) ==
    [kind |-> kind, doc |-> doc, stored |-> stored, booked |-> booked,
     accepted |-> FALSE, captured |-> FALSE]

Ok(doc) == Result("dict", doc, FALSE, None)

Raised == Result("raise", EmptyDoc, FALSE, None)

\* what the model of the LLM may return for a field of an extraction schema
FieldValues(f) ==
    CASE f = "pending_slots" -> { <<"s1", "s2">>, << >> }
      [] f = "budget" -> { "int 10000", "int 1000", "str $10,000" }
      [] OTHER -> { "addr", None }

\* send_whatsapp_message: the Graph API answered 200
Accepted(res) == [res EXCEPT !.accepted = TRUE]

\* action / send_message: WhatsApp when the trigger has a from_number, else
\* a stored agent message for a web user_id.  send_whatsapp_message returns
\* nothing, whether the API accepted the message, answered with an error or
\* the credentials are missing; the HTTP client may raise.
SendMessage(context) ==
    LET trigger == Get(context, "trigger", NoTrigger)
    IN IF trigger.from_number # None
       THEN { Accepted(Ok([action_result |-> "sent", message_body |-> "hydrated"])),
              Ok([action_result |-> "sent", message_body |-> "hydrated"]),
              Raised }
       ELSE IF trigger.user_id # None
       THEN { Result("dict",
                     [action_result |-> "sent_web", message_body |-> "hydrated"],
                     TRUE, None) }
       ELSE { Ok([action_result |-> "failed",
                  error |-> "No target number or user_id found"]) }

\* ai_extract: the parsed JSON of the reply is returned as it is (a document
\* with the schema's fields, or a JSON value that is no document); a reply
\* that does not parse gives extraction_error
AiExtract(config) ==
    { Ok(d) : d \in [config.fields -> UNION { FieldValues(f) : f \in config.fields }] }
    \cup { Ok([extraction_error |-> "failed_to_parse_json"]),
           Result("nondict", EmptyDoc, FALSE, None) }

\* condition: the operator applied to the context value of the variable and
\* the configured value; "contains" when no operator is configured
GreaterThanText(actual_value, target_value) ==
    StrGreater(PyStr(actual_value), PyStr(target_value))

GreaterThan(actual_value, target_value) ==
    IF CleanNum(actual_value) = -1 \/ CleanNum(target_value) = -1
    THEN StrGreater(PyStr(actual_value), PyStr(target_value))
    ELSE CleanNum(actual_value) > CleanNum(target_value)

Exists(actual_value) == actual_value # None /\ actual_value # "str "

Truthy(v) == v # None /\ v # "str " /\ v \notin Lists

ConditionHolds(operator, actual_value, target_value) ==
    IF operator = "exists" THEN Exists(actual_value)
    ELSE IF actual_value = None THEN FALSE
    ELSE CASE operator = "equals" ->
                Lower(PyStr(actual_value)) = Lower(PyStr(target_value))
           [] operator = "contains" ->
                /\ Truthy(target_value)
                /\ Contains(Lower(PyStr(target_value)), Lower(PyStr(actual_value)))
           [] operator = "greater_than" ->
                GreaterThan(actual_value, target_value)
           [] OTHER -> FALSE

Condition(config, context) ==
    LET variable == Get(config, "variable", None)
        operator == Get(config, "operator", "contains")
        target_value == Get(config, "value", None)
        actual_value == GetContextValue(context, variable)
    IN { Ok([condition_eval |->
             IF ConditionHolds(operator, actual_value, target_value)
             THEN "true" ELSE "false"]) }

Suspend(node_id) ==
    [orchestration_signal |-> "suspend", resume_node_id |-> node_id]

\* appointment_booking.  Confirm phase when the context has latest_reply and
\* pending_slots: the matcher's index selects a slot and book_appointment
\* stores it (success unless the appointment type is unknown); no index, or
\* any exception after the booking, re-suspends.  Otherwise the propose
\* phase, which fails on the undefined name timedelta once an appointment
\* type is known.
AppointmentBooking(node, context) ==
    LET latest_reply == Get(context, "latest_reply", EmptyText)
        pending_slots == Get(context, "pending_slots", << >>)
        trigger == Get(context, "trigger", NoTrigger)
        business_id == Get(context, "business_id", "default")
        retry == Ok(Suspend(node.id) @@
                    [pending_slots |-> pending_slots, ai_output |-> "retry_msg"])
    IN IF latest_reply # EmptyText /\ pending_slots # << >>
       THEN { retry }
            \cup UNION {
                IF \E t \in AppointmentTypes : t.id = node.config.appointment_type_id
                THEN { Result("dict",
                          [booking_result |-> "success",
                           appointment_id |-> Len(appointments) + 1,
                           booked_slot |-> pending_slots[idx]],
                          trigger.from_number = None, pending_slots[idx]) }
                     \cup (IF trigger.from_number # None
                           THEN { [retry EXCEPT !.booked = pending_slots[idx]] }
                           ELSE {})
                ELSE { Ok([booking_result |-> "failed",
                           error |-> "Invalid appointment type"]) }
                : idx \in 1..Len(pending_slots) }
       ELSE IF node.config.appointment_type_id # None
               \/ \E t \in AppointmentTypes : t.business_id = business_id
       THEN { Raised }
       ELSE { Ok([error |-> "No appointment types found"]) }

\* lead_capture: save_lead stores a lead of the business with the configured
\* status and returns its id
Captured(res) == [res EXCEPT !.captured = TRUE]

NewLeadId == Cardinality(DOMAIN leads) + 1

NewLead(node, context) ==
    [business_id |-> Get(context, "business_id", "default"),
     status |-> Get(node.config, "status", StatusNew),
     value |-> None, tags |-> << >>]

LeadCapture(node, context) ==
    { Captured(Ok([lead_id |-> NewLeadId, lead_status |-> "captured"])) }

\* time_delay: the signal of the delay and its seconds
TimeDelay(config) ==
    [orchestration_signal |-> "delay", seconds |-> config.seconds]

\* execute_node_logic: the possible results of one node visit
ExecuteNodeLogic(node, context) ==
    CASE node.type = "start" -> { Ok([status |-> "started"]) }
      [] node.type = "action" ->
            IF node.config.action_type = "send_message"
            THEN SendMessage(context)
            ELSE { Ok([action_result |-> "unknown_type"]) }
      [] node.type = "ai_extract" -> AiExtract(node.config)
      [] node.type = "condition" -> Condition(node.config, context)
      [] node.type = "wait_for_reply" -> { Ok(Suspend(node.id)) }
      [] node.type = "time_delay" -> { Ok(TimeDelay(node.config)) }
      [] node.type = "lead_capture" -> LeadCapture(node, context)
      [] node.type = "appointment_booking" -> AppointmentBooking(node, context)
      [] OTHER -> { Ok(EmptyDoc) }

\* ------------------------------------------------- process_node_async
NodeById(node_id) == CHOOSE n \in nodes : n.id = node_id

IsSuspend(res) ==
    res.kind = "dict" /\ Get(res.doc, "orchestration_signal", None) = "suspend"

\* ExecutionStep ids are fresh; a step is named here by its execution, its
\* node and the number of the visit.
NewStepId(execution_id, node_id) ==
    <<execution_id, node_id,
      1 + Cardinality({ st \in steps :
                          st.execution_id = execution_id /\ st.node_id = node_id })>>

UpdateStep(step_id, status, output_data, res) ==
    { IF st.id = step_id
      THEN [st EXCEPT !.status = status, !.output_data = output_data,
                      !.returned = res.doc, !.accepted = res.accepted,
                      !.completed_at = now]
      ELSE st : st \in steps }

\* A worker takes a process_node task, loads the node and the execution and
\* commits a running step; the task is dropped when either row is missing.
StartStep(t) ==
    /\ BagIn(t, queue)
    /\ t.eta <= now
    /\ Cardinality(inflight) < pool
    /\ queue' = queue (-) SetToBag({t})
    /\ IF /\ \E n \in nodes : n.id = t.node_id
          /\ t.execution_id \in CommittedExecs
       THEN /\ steps' = steps \cup
                  { [id |-> NewStepId(t.execution_id, t.node_id),
                     execution_id |-> t.execution_id, node_id |-> t.node_id,
                     status |-> "running", output_data |-> EmptyDoc,
                     returned |-> EmptyDoc, started_at |-> now,
                     completed_at |-> -1, error |-> None, accepted |-> FALSE,
                     input_data |-> execs[t.execution_id].context_data] }
            /\ inflight' = inflight \cup
                  { [step |-> NewStepId(t.execution_id, t.node_id), execution_id |-> t.execution_id,
                     node_id |-> t.node_id, phase |-> "execute",
                     context_data |-> execs[t.execution_id].context_data,
                     status |-> execs[t.execution_id].status,
                     output |-> Raised] }
       ELSE UNCHANGED <<steps, inflight>>
    /\ UNCHANGED <<evals, activities, leads, now, restarts, business, workflows, nodes, edges, execs, reqs, messages,
                   appointments, inbound, budget, pool>>

\* The executor runs on the loaded context.  A suspend signal marks the step
\* and the execution suspended and records the resume point; any other
\* output completes the step and, if it is a document, is merged over the
\* loaded context and committed.  An exception ends the task with nothing
\* further written.
Execute(a) ==
    /\ a \in inflight
    /\ a.phase = "execute"
    /\ \E res \in ExecuteNodeLogic(NodeById(a.node_id), a.context_data) :
        LET e == a.execution_id
            merged == Merge(a.context_data, res.doc)
        IN
        /\ messages' =
              IF res.stored
              THEN messages (+) SetToBag({
                      StoreMessage(Get(a.context_data, "business_id", "default"),
                                   Get(a.context_data, "trigger", NoTrigger).user_id,
                                   "agent", "web")})
              ELSE messages
        /\ leads' =
              IF res.captured
              THEN leads @@ (NewLeadId :> NewLead(NodeById(a.node_id), a.context_data))
              ELSE leads
        /\ appointments' =
              IF res.booked # None
              THEN Append(appointments,
                      [business_id |-> Get(a.context_data, "business_id", "default"),
                       start_at |-> res.booked, status |-> "scheduled"])
              ELSE appointments
        /\ IF res.kind = "raise"
           THEN /\ inflight' = inflight \ {a}
                /\ UNCHANGED <<steps, execs>>
           ELSE IF IsSuspend(res)
           THEN /\ steps' = UpdateStep(a.step, "suspended", EmptyDoc, res)
                /\ execs' = [execs EXCEPT ![e] =
                      [@ EXCEPT !.status = Written("suspended", a.status, @),
                                !.resume_payload =
                                    [node_id |-> res.doc["resume_node_id"],
                                     step_id |-> a.step]]]
                /\ inflight' = inflight \ {a}
           ELSE /\ steps' = UpdateStep(a.step, "completed", res.doc, res)
                /\ execs' = [execs EXCEPT ![e] =
                      [@ EXCEPT !.context_data =
                            IF res.kind = "dict"
                            THEN Written(merged, a.context_data, @)
                            ELSE @]]
                /\ inflight' = (inflight \ {a}) \cup
                      { [a EXCEPT !.phase = "dispatch", !.output = res,
                                  !.context_data =
                                      IF res.kind = "dict" THEN merged ELSE @] }
    /\ UNCHANGED <<evals, activities, now, restarts, business, workflows, nodes, edges, queue, reqs, inbound, budget, pool>>

\* delay_seconds of the dispatcher: the seconds of a delay signal
DelaySeconds(output) ==
    IF Get(output, "orchestration_signal", None) = "delay"
    THEN Get(output, "seconds", 0)
    ELSE 0

\* apply_async(countdown=...) holds a task back until the countdown is over;
\* delay() makes it available at once
Countdown(delay_seconds) == IF delay_seconds > 0 THEN now + delay_seconds ELSE 0

\* After the commit of the output: the successors are dispatched, and an
\* execution whose node has no successor is marked completed.  An output
\* that is no document fails on the first guarded outgoing edge.
Dispatch(a) ==
    /\ a \in inflight
    /\ a.phase = "dispatch"
    /\ LET e == a.execution_id
           next_nodes == GetNextNodes(a.node_id, a.output.doc)
           fails == /\ a.output.kind = "nondict"
                    /\ \E x \in edges :
                          x.source_id = a.node_id /\ Guarded(x)
       IN IF fails
          THEN UNCHANGED <<queue, execs>>
          ELSE /\ queue' = queue (+)
                      TasksOf(e, next_nodes, Countdown(DelaySeconds(a.output.doc)))
               /\ IF next_nodes = EmptyBag
                  THEN execs' = [execs EXCEPT ![e] =
                          [@ EXCEPT !.status = Written("completed", a.status, @),
                                    !.completed_at = @ + 1]]
                  ELSE UNCHANGED execs
    /\ inflight' = inflight \ {a}
    /\ UNCHANGED <<evals, activities, leads, now, restarts, business, workflows, nodes, edges, steps, reqs, messages,
                   appointments, inbound, budget, pool>>

Next ==
    \/ \E m \in inbound : Receive(m[1], m[2])
    \/ \E r \in 1..Len(reqs) : ResumeCommit(r)
    \/ \E r \in 1..Len(reqs) : Commit(r)
    \/ \E t \in BagToSet(queue) : StartStep(t)
    \/ \E a \in inflight : Execute(a)
    \/ \E a \in inflight : Dispatch(a)

\* a second passes
Tick ==
    /\ now < MaxTime
    /\ now' = now + 1
    /\ UNCHANGED <<evals, activities, leads, restarts, business, workflows, nodes, edges, execs, steps,
                   queue, inflight, reqs, messages, appointments, inbound,
                   budget, pool>>

\* The worker processes are restarted: the activations they were running
\* are gone; the tasks held by the broker stay.
WorkerRestart ==
    /\ restarts < MaxRestarts
    /\ inflight # {}
    /\ restarts' = restarts + 1
    /\ inflight' = {}
    /\ UNCHANGED <<evals, activities, leads, now, business, workflows, nodes, edges, execs, steps, queue,
                   reqs, messages, appointments, inbound, budget, pool>>

NextD ==
    \/ \E m \in inbound : Receive(m[1], m[2])
    \/ \E r \in 1..Len(reqs) : ResumeCommit(r)
    \/ \E r \in 1..Len(reqs) : Commit(r)
    \/ \E t \in BagToSet(queue) : StartStep(t)
    \/ \E a \in inflight : Execute(a)
    \/ \E a \in inflight : Dispatch(a)
    \/ Tick
    \/ WorkerRestart

\* messages arrive while time passes
NextX ==
    \/ \E m \in inbound : Receive(m[1], m[2])
    \/ \E r \in 1..Len(reqs) : ResumeCommit(r)
    \/ \E r \in 1..Len(reqs) : Commit(r)
    \/ \E t \in BagToSet(queue) : StartStep(t)
    \/ \E a \in inflight : Execute(a)
    \/ \E a \in inflight : Dispatch(a)
    \/ Tick

\* the CRM updates leads; no messages arrive
NextE ==
    \/ \E b \in {"t1", "t2"} : \E u \in {[status |-> x] : x \in LeadStatuses} \cup {EmptyDoc} :
          UpdateLead(b, 1, u)
    \/ \E r \in 1..Len(reqs) : LeadCommit(r)
    \/ \E t \in BagToSet(queue) : StartStep(t)
    \/ \E a \in inflight : Execute(a)
    \/ \E a \in inflight : Dispatch(a)

\* messages reach workflows that never suspend: nothing is resumed
NextG ==
    \/ \E m \in inbound : Receive(m[1], m[2])
    \/ \E r \in 1..Len(reqs) : Commit(r)
    \/ \E t \in BagToSet(queue) : StartStep(t)
    \/ \E a \in inflight : Execute(a)
    \/ \E a \in inflight : Dispatch(a)

\* The condition executor called on its own, as the qualification test does:
\* a condition node is run on a context that holds the extracted budget.
ConditionConfigs ==
    [variable : {"budget"},
     operator : {"exists", "equals", "contains", "greater_than"},
     value : {"str 5000", "str a", "str 1.10", None}]

ContextValues ==
    {"int 10000", "int 1000", "str $10,000", "str b", "str B", "str 1.2.3",
     "str ", "list []", None}

EvalCondition(config, actual_value) ==
    /\ budget > 0
    /\ budget' = budget - 1
    /\ \E res \in ExecuteNodeLogic(Node("cond", "condition", config),
                                    [business_id |-> "t1", budget |-> actual_value]) :
          evals' = evals \cup
              { [config |-> config, actual_value |-> actual_value,
                 result |-> res.doc.condition_eval] }
    /\ UNCHANGED <<activities, leads, now, restarts, business, workflows, nodes,
                   edges, execs, steps, queue, inflight, reqs, messages,
                   appointments, inbound, pool>>

NextV ==
    \E config \in ConditionConfigs : \E actual_value \in ContextValues :
        EvalCondition(config, actual_value)

\* the CRM updates the tracked fields of a lead: each field is left out, or
\* given its stored value or another one
NextU ==
    \/ \E b \in {"t1", "t2"} :
       \E s \in {EmptyDoc} \cup { [status |-> x] : x \in {StatusNew, StatusContacted} } :
       \E v \in {EmptyDoc} \cup { [value |-> x] : x \in {10000, 15000} } :
       \E t \in {EmptyDoc} \cup { [tags |-> x] : x \in {<<"hot">>, << >>} } :
          UpdateLead(b, 1, s @@ v @@ t)
    \/ \E r \in 1..Len(reqs) : LeadCommit(r)

\* get_available_slots for one date, the times of the day counted in slots
\* of time.  The rows it reads: the appointment type, the availability rules
\* of the weekday and the appointments that start on the date.
SlotTypes ==
    { [id |-> "one", business_id |-> "t1", duration_minutes |-> 1],
      [id |-> "two", business_id |-> "t1", duration_minutes |-> 2],
      [id |-> "far", business_id |-> "t2", duration_minutes |-> 1] }

Rule(business_id, day_of_week, start_time, end_time, is_active) ==
    [business_id |-> business_id, day_of_week |-> day_of_week,
     start_time |-> start_time, end_time |-> end_time, is_active |-> is_active]

AvailabilityRules ==
    { Rule("t1", 0, 1, 2 * MaxTime, TRUE), Rule("t1", 0, 0, MaxTime, TRUE),
      Rule("t1", 0, 0, 2 * MaxTime, FALSE), Rule("t1", 1, 0, 2 * MaxTime, TRUE),
      Rule("t2", 0, 0, 2 * MaxTime, TRUE) }

Appointment(business_id, start_at, end_at, status) ==
    [business_id |-> business_id, start_at |-> start_at, end_at |-> end_at,
     status |-> status]

DayAppointments ==
    { Appointment("t1", 2, 3, "scheduled"), Appointment("t1", 3, 5, "confirmed"),
      Appointment("t1", 1, 2, "cancelled"), Appointment("t2", 1, 2 * MaxTime, "scheduled") }

OverlapNever(slot_start, slot_end, apt) == FALSE

Overlap(slot_start, slot_end, apt) ==
    slot_start < apt.end_at /\ apt.start_at < slot_end

\* the while loop over one rule, from current_time on
RECURSIVE SlotsOfRule(_, _, _, _, _)
SlotsOfRule(current_time, end_time, duration, existing_apts, utcnow) ==
    IF current_time + duration <= end_time
    THEN (IF /\ ~ \E apt \in existing_apts :
                     Overlap(current_time, current_time + duration, apt)
             /\ current_time > utcnow
          THEN <<current_time>> ELSE << >>)
         \o SlotsOfRule(current_time + duration, end_time, duration,
                        existing_apts, utcnow)
    ELSE << >>

RECURSIVE SlotsOfRules(_, _, _, _)
SlotsOfRules(rules, duration, existing_apts, utcnow) ==
    IF rules = << >> THEN << >>
    ELSE SlotsOfRule(Head(rules).start_time, Head(rules).end_time, duration,
                     existing_apts, utcnow)
         \o SlotsOfRules(Tail(rules), duration, existing_apts, utcnow)

GetAvailableSlots(business_id, day_of_week, appointment_type_id, rule_rows, appointment_rows, utcnow) ==
    LET types == { t \in SlotTypes : t.id = appointment_type_id }
        apt_type == CHOOSE t \in types : TRUE
        rules == { r \in rule_rows :
                     /\ r.business_id = business_id
                     /\ r.day_of_week = day_of_week
                     /\ r.is_active }
        existing_apts == { a \in appointment_rows :
                             /\ a.business_id = business_id
                             /\ a.status \in {"scheduled", "confirmed"} }
    IN IF types = {} \/ apt_type.business_id # business_id THEN << >>
       ELSE SlotsOfRules(SetToSeq(rules), apt_type.duration_minutes,
                         existing_apts, utcnow)

\* get_available_slots is called for a tenant on some rows at some time
EvalSlots(appointment_type_id, rule_rows, appointment_rows, utcnow) ==
    /\ budget > 0
    /\ budget' = budget - 1
    /\ evals' = evals \cup
          { [appointment_type_id |-> appointment_type_id, rules |-> rule_rows,
             appointments |-> appointment_rows, utcnow |-> utcnow,
             result |-> GetAvailableSlots("t1", 0, appointment_type_id,
                                          rule_rows, appointment_rows, utcnow)] }
    /\ UNCHANGED <<activities, leads, now, restarts, business, workflows, nodes,
                   edges, execs, steps, queue, inflight, reqs, messages,
                   appointments, inbound, pool>>

NextY ==
    \E t \in {"one", "two", "far", "none"} : \E rule_rows \in SUBSET AvailabilityRules :
    \E appointment_rows \in SUBSET DayAppointments : \E utcnow \in 0..MaxTime :
        EvalSlots(t, rule_rows, appointment_rows, utcnow)

\* ------------------------------------------- calls that name a workflow
\* session.get(Workflow, workflow_id)
WorkflowById(workflow_id) == { w \in workflows : w.id = workflow_id }

OwnsAny(wf, business_id) == TRUE

\* `wf.business_id != business_id` of delete_workflow and
\* trigger_specific_workflow
Owns(wf, business_id) == wf.business_id = business_id

\* the workflow the call may act on: it exists and is the caller's
Owned(business_id, workflow_id) ==
    { w \in WorkflowById(workflow_id) : Owns(w, business_id) }

\* delete_workflow: False for an unknown workflow or that of another
\* business; otherwise the workflow is deleted with its nodes, its edges,
\* its executions and their steps (the cascades of the relationships), and
\* the call returns True.  The call is recorded with what it returned.
DeleteWorkflow(business_id, workflow_id) ==
    /\ budget > 0
    /\ budget' = budget - 1
    /\ LET found == Owned(business_id, workflow_id) # {}
           gone == { e \in CommittedExecs : execs[e].workflow_id = workflow_id }
           r == NewRequest(business_id, EmptyDoc)
                  @@ [op |-> "delete", workflow_id |-> workflow_id, ok |-> found]
       IN /\ reqs' = Append(reqs, [r EXCEPT !.pc = "done"])
          /\ IF found
             THEN /\ workflows' = workflows \ WorkflowById(workflow_id)
                  /\ nodes' = { n \in nodes : n.workflow_id # workflow_id }
                  /\ edges' = { x \in edges : x.workflow_id # workflow_id }
                  /\ execs' = [e \in 1..Len(execs) |->
                        IF e \in gone THEN [execs[e] EXCEPT !.deleted = TRUE]
                        ELSE execs[e]]
                  /\ steps' = { st \in steps : st.execution_id \notin gone }
             ELSE UNCHANGED <<workflows, nodes, edges, execs, steps>>
    /\ UNCHANGED <<evals, activities, leads, now, restarts, business, queue,
                   inflight, messages, appointments, inbound, pool>>

\* trigger_specific_workflow up to its commit: None for an unknown workflow
\* or that of another business; otherwise an execution with the context
\* {trigger} is added and, when the workflow has its one start node, the
\* start task is sent and the id returned; without a start node the session
\* is rolled back and None returned.
TriggerSpecificWorkflow(business_id, workflow_id, trigger_data) ==
    /\ budget > 0
    /\ budget' = budget - 1
    /\ LET found == Owned(business_id, workflow_id) # {}
           starts == StartNodes(workflow_id)
           started == found /\ Cardinality(starts) = 1
           id == Len(execs) + 1
           row == [NewExecution([id |-> workflow_id], business_id, trigger_data)
                     EXCEPT !.context_data = [trigger |-> trigger_data]]
           r == NewRequest(business_id, trigger_data)
                  @@ [op |-> "trigger", workflow_id |-> workflow_id, ok |-> started]
       IN IF started
          THEN /\ execs' = Append(execs, row)
               /\ queue' = queue (+) SetToBag({ Task(id, sn.id) : sn \in starts })
               /\ reqs' = Append(reqs, [r EXCEPT !.pc = "specific_commit",
                                                 !.created = {id},
                                                 !.returned = {id}])
          ELSE /\ reqs' = Append(reqs, [r EXCEPT !.pc = "done"])
               /\ UNCHANGED <<execs, queue>>
    /\ UNCHANGED <<evals, activities, leads, now, restarts, business, workflows,
                   nodes, edges, steps, inflight, messages, appointments,
                   inbound, pool>>

\* the commit of trigger_specific_workflow.  When the workflow was deleted in
\* between, the row refers to no workflow: the database stores it or refuses
\* the commit, by whether it enforces the foreign key.
SpecificCommit(r) ==
    /\ r \in 1..Len(reqs)
    /\ reqs[r].pc = "specific_commit"
    /\ \E stored \in BOOLEAN :
        /\ WorkflowById(reqs[r].workflow_id) # {} => stored
        /\ execs' = [e \in 1..Len(execs) |->
                IF e \in reqs[r].created
                THEN [execs[e] EXCEPT !.committed = stored, !.deleted = ~stored]
                ELSE execs[e]]
    /\ reqs' = [reqs EXCEPT ![r] = [@ EXCEPT !.pc = "done"]]
    /\ UNCHANGED <<evals, activities, leads, now, restarts, business, workflows,
                   nodes, edges, steps, queue, inflight, messages, appointments,
                   inbound, budget, pool>>

\* the dashboard deletes and triggers workflows by id, for either tenant
NextZ ==
    \/ \E b \in {"t1", "t2"} : \E w \in {"ask", "other", "nostart", "none"} :
          DeleteWorkflow(b, w)
    \/ \E b \in {"t1", "t2"} : \E w \in {"ask", "other", "nostart", "none"} :
          TriggerSpecificWorkflow(b, w, WebTrigger("u1", TextOther))
    \/ \E r \in 1..Len(reqs) : SpecificCommit(r)

\* ------------------------------------------------------- hydrate_text
\* The key a part of a placeholder spells.  The keys of the contexts used
\* here are one character long, but for trigger, which the texts write t.
KeyOf(part) ==
    CASE part = <<"t">> -> "trigger"
      [] Len(part) = 1 -> part[1]
      [] OTHER -> "?"

\* python str.strip() for blanks
RECURSIVE Strip(_)
Strip(s) ==
    IF s = << >> THEN s
    ELSE IF Head(s) = " " THEN Strip(Tail(s))
    ELSE IF s[Len(s)] = " " THEN Strip(SubSeq(s, 1, Len(s) - 1))
    ELSE s

\* python str.split('.')
RECURSIVE Split(_)
Split(s) ==
    LET dots == { i \in 1..Len(s) : s[i] = "." }
    IN IF dots = {} THEN <<s>>
       ELSE LET d == CHOOSE i \in dots : \A j \in dots : i <= j
            IN <<SubSeq(s, 1, d - 1)>> \o Split(SubSeq(s, d + 1, Len(s)))

\* get_context_value without the fallback to the trigger
GetContextPathRootOnly(context, key) ==
    LET parts == Split(key)
    IN IF key = << >> THEN None
       ELSE IF Len(parts) = 1 THEN Get(context, KeyOf(parts[1]), None)
       ELSE IF Len(parts) = 2 /\ KeyOf(parts[1]) = "trigger" /\ "trigger" \in DOMAIN context
       THEN Get(context.trigger, KeyOf(parts[2]), None)
       ELSE None

\* get_context_value for the key as written: nothing for an empty key; the
\* path is walked through the dicts, which in the contexts used here is the
\* trigger alone, so that a path of two parts resolves under the trigger
\* and a longer one, or one through a value that is no dict, does not; a
\* key without dots falls back to the root and then to the trigger.
GetContextPath(context, key) ==
    LET parts == Split(key)
    IN IF key = << >> THEN None
       ELSE IF Len(parts) = 1 THEN GetContextValue(context, KeyOf(parts[1]))
       ELSE IF Len(parts) = 2 /\ KeyOf(parts[1]) = "trigger" /\ "trigger" \in DOMAIN context
       THEN Get(context.trigger, KeyOf(parts[2]), None)
       ELSE None

\* where "{{" and "}}" begin in a text
Opens(s) == { i \in 1..(Len(s) - 1) : s[i] = "{" /\ s[i + 1] = "{" }

Closes(s) == { i \in 1..(Len(s) - 1) : s[i] = "}" /\ s[i + 1] = "}" }

\* replace_var: the string form of the value, or the match itself
ReplaceVar(match, context) ==
    LET key == Strip(SubSeq(match, 3, Len(match) - 2))
        val == GetContextPath(context, key)
    IN IF val # None THEN PyStr(val) ELSE match

\* re.sub(r'\{\{(.*?)\}\}', replace_var, text): the leftmost "{{" that has a
\* "}}" after it is matched up to the nearest one, and the scan goes on
\* behind the match
RECURSIVE ReSub(_, _)
ReSub(s, context) ==
    LET starts == { i \in Opens(s) : \E j \in Closes(s) : j >= i + 2 }
    IN IF starts = {} THEN s
       ELSE LET i == CHOOSE x \in starts : \A y \in starts : x <= y
                ends == { j \in Closes(s) : j >= i + 2 }
                j == CHOOSE x \in ends : \A y \in ends : x <= y
            IN SubSeq(s, 1, i - 1)
                 \o ReplaceVar(SubSeq(s, i, j + 1), context)
                 \o ReSub(SubSeq(s, j + 2, Len(s)), context)

\* hydrate_text; a value is given with its type, a string by its characters
HydrateText(text, context) ==
    IF text.type # "str" THEN text
    ELSE [type |-> "str", chars |-> ReSub(text.chars, context)]

\* The pieces the texts are made of: placeholders with the path they name,
\* plain characters, and loose braces.
Placeholder(chars, path) == [kind |-> "placeholder", chars |-> chars, path |-> path]

Plain(chars) == [kind |-> "plain", chars |-> chars, path |-> << >>]

Loose(chars) == [kind |-> "loose", chars |-> chars, path |-> << >>]

Pieces ==
    << Placeholder(<<"{", "{", "c", "}", "}">>, <<"c">>),
       Placeholder(<<"{", "{", " ", "n", " ", "}", "}">>, <<"n">>),
       Placeholder(<<"{", "{", "i", "}", "}">>, <<"i">>),
       Placeholder(<<"{", "{", "t", ".", "i", "}", "}">>, <<"trigger", "i">>),
       Placeholder(<<"{", "{", "c", ".", "i", "}", "}">>, <<"c", "i">>),
       Placeholder(<<"{", "{", "t", ".", "i", ".", "c", "}", "}">>, <<"trigger", "i", "c">>),
       Placeholder(<<"{", "{", "}", "}">>, << >>),
       Plain(<<"a">>), Plain(<<" ">>), Plain(<<".">>),
       Loose(<<"{", "{", "c">>), Loose(<<"}", "}">>), Loose(<<"{">>) >>

MaxPieces == 3

\* the contexts: a root value beside one of the trigger, a value of the
\* trigger alone, a null root value, an empty string, no trigger at all
HydrationContexts ==
    << [c |-> "str b", n |-> None, trigger |-> [c |-> "str B", i |-> "str a"]],
       [trigger |-> [c |-> "str B", n |-> "int 1000"]],
       [c |-> None, i |-> "list []", trigger |-> [c |-> "str a", i |-> None]],
       [c |-> "str ", n |-> "int 10000"] >>

\* the characters of some pieces in a row
RECURSIVE TextOf(_)
TextOf(pieces) ==
    IF pieces = << >> THEN << >>
    ELSE Pieces[Head(pieces)].chars \o TextOf(Tail(pieces))

\* hydrate_text called on its own, as the hydration test does: on a text of
\* some pieces, or on a value that is no string
EvalHydrate(pieces, x) ==
    /\ budget > 0
    /\ budget' = budget - 1
    /\ LET text == [type |-> "str", chars |-> TextOf(pieces)]
       IN evals' = evals \cup
             { [pieces |-> pieces, text |-> text, context |-> x,
                result |-> HydrateText(text, HydrationContexts[x])] }
    /\ UNCHANGED <<activities, leads, now, restarts, business, workflows, nodes,
                   edges, execs, steps, queue, inflight, reqs, messages,
                   appointments, inbound, pool>>

EvalHydrateOther(v, x) ==
    /\ budget > 0
    /\ budget' = budget - 1
    /\ LET text == [type |-> "other", atom |-> v]
       IN evals' = evals \cup
             { [pieces |-> << >>, text |-> text, context |-> x,
                result |-> HydrateText(text, HydrationContexts[x])] }
    /\ UNCHANGED <<activities, leads, now, restarts, business, workflows, nodes,
                   edges, execs, steps, queue, inflight, reqs, messages,
                   appointments, inbound, pool>>

NextT ==
    \/ /\ budget > 0
       /\ \E n \in 0..MaxPieces : \E pieces \in [1..n -> 1..Len(Pieces)] :
          \E x \in 1..Len(HydrationContexts) : EvalHydrate(pieces, x)
    \/ \E v \in {"int 10000", "list []", None} :
       \E x \in 1..Len(HydrationContexts) : EvalHydrateOther(v, x)

\* --------------------------------------------------- generate_response
\* check_safety: no unsafe keyword in the lowered message
UnsafeKeywords ==
    { <<"s", "u", "i", "c", "i", "d", "e">>, <<"k", "i", "l", "l">>,
      <<"m", "u", "r", "d", "e", "r">>, <<"b", "o", "m", "b">>,
      <<"t", "e", "r", "r", "o", "r", "i", "s", "t">>, <<"h", "a", "c", "k">> }

CheckSafety(message) ==
    \A word \in UnsafeKeywords : ~Contains(word, Lower(message))

\* what becomes of the request to the provider: an answer of status 200 with
\* a choice, without choices, with a body that is no JSON or with a null
\* content; an answer of another status; a timeout; no connection
ProviderOutcomes ==
    {"choice", "no choices", "no json", "null content", "401", "402", "429",
     "500", "timeout", "no connection"}

\* str.lower() exists on strings only
HasLower(v) == v \notin Ints \cup Lists \cup {None}

Returned(reply, called, logged) ==
    [raised |-> FALSE, reply |-> reply, called |-> called, logged |-> logged]

\* generate_response: the configuration error without a key; then
\* construct_messages and check_safety, outside any try, which lower the
\* message; then the request, whose failures are answered by fixed strings.
\* log_prompt_execution runs for a business and its failure is swallowed.
GenerateResponse(api_key, user_message, business_id, outcome) ==
    IF ~api_key THEN Returned("not configured", FALSE, FALSE)
    ELSE IF ~HasLower(user_message)
    THEN [raised |-> TRUE, reply |-> None, called |-> FALSE, logged |-> FALSE]
    ELSE IF ~CheckSafety(PyStr(user_message)) THEN Returned("refusal", FALSE, FALSE)
    ELSE CASE outcome = "401" -> Returned("unauthorized", TRUE, FALSE)
           [] outcome = "402" -> Returned("insufficient credits", TRUE, FALSE)
           [] outcome = "429" -> Returned("busy", TRUE, FALSE)
           [] outcome = "500" -> Returned("trouble connecting to the provider", TRUE, FALSE)
           [] outcome = "timeout" -> Returned("taking too long", TRUE, FALSE)
           [] outcome = "no choices" -> Returned("trouble processing", TRUE, FALSE)
           [] outcome = "choice" -> Returned("content", TRUE, business_id # None)
           [] OTHER -> Returned("trouble connecting to my service", TRUE, FALSE)

\* generate_response called on its own
EvalGenerate(api_key, user_message, business_id, outcome) ==
    /\ budget > 0
    /\ budget' = budget - 1
    /\ evals' = evals \cup
          { [api_key |-> api_key, user_message |-> user_message,
             business_id |-> business_id, provider |-> outcome,
             result |-> GenerateResponse(api_key, user_message, business_id, outcome)] }
    /\ UNCHANGED <<activities, leads, now, restarts, business, workflows, nodes,
                   edges, execs, steps, queue, inflight, reqs, messages,
                   appointments, inbound, pool>>

\* the gateway is called with the text of a message or with the input_text
\* of an agent node, which is any JSON value
NextI ==
    \E api_key \in BOOLEAN : \E user_message \in {"str a", "str Hack", "int 1000", None} :
    \E business_id \in {"t1", None} : \E outcome \in ProviderOutcomes :
        EvalGenerate(api_key, user_message, business_id, outcome)

\* send_whatsapp_message, by what happens to the request: the business has
\* no credentials (logged, returns), the API answers 200, the API answers
\* another status (logged, returns), or the HTTP client raises
SendOutcomes == {"no_credentials", "ok", "rejected", "raised"}

SendRaises(outcome) == outcome = "raised"

\* send_lead_message, one session committed at its end: nothing for an
\* unknown lead, the lead of another business or a lead without phone and
\* conversation; otherwise the Message of the agent, pending until the send
\* returned (sent) or raised (failed), and the LeadActivity of the attempt.
\* The call is recorded with what it returned.
SendLeadMessage(business_id, lead_id, outcome) ==
    /\ budget > 0
    /\ budget' = budget - 1
    /\ LET call == Cardinality(evals) + 1
           known == lead_id \in DOMAIN leads /\ leads[lead_id].business_id = business_id
           lead == leads[lead_id]
           recipient == IF known THEN OrElse(lead.phone, lead.conversation_id) ELSE None
           conversation_id == IF known THEN OrElse(lead.conversation_id, recipient)
                              ELSE None
           send_success == ~SendRaises(outcome)
           status == IF send_success THEN "sent" ELSE "failed"
           asked == [call |-> call, business_id |-> business_id,
                     lead_id |-> lead_id, outcome |-> outcome]
       IN IF ~known \/ recipient = None
          THEN /\ evals' = evals \cup
                     { asked @@ [success |-> FALSE, status |-> None,
                                 error |-> IF known THEN "No contact method available"
                                           ELSE "Lead not found"] }
               /\ UNCHANGED <<messages, activities>>
          ELSE /\ messages' = messages (+) SetToBag({
                     [business_id |-> business_id, conversation_id |-> conversation_id,
                      sender |-> "agent", platform |-> "whatsapp",
                      status |-> status, call |-> call] })
               /\ activities' = Append(activities,
                     [lead_id |-> lead_id, business_id |-> business_id,
                      type |-> IF send_success THEN "message_sent" ELSE "message_failed",
                      content |-> [recipient |-> recipient, status |-> status],
                      call |-> call])
               /\ evals' = evals \cup
                     { asked @@ [success |-> send_success, status |-> status,
                                 error |-> IF send_success THEN None ELSE "raised"] }
    /\ UNCHANGED <<leads, now, restarts, business, workflows, nodes, edges, execs,
                   steps, queue, inflight, reqs, appointments, inbound, pool>>

\* the CRM sends messages to leads, whatever becomes of the request
NextM ==
    \E b \in {"t1", "t2"} : \E l \in 1..5 : \E outcome \in SendOutcomes :
        SendLeadMessage(b, l, outcome)

\* events reach trigger_workflow; no worker runs
NextW ==
    \/ \E m \in inbound : Receive(m[1], m[2])
    \/ \E r \in 1..Len(reqs) : Commit(r)
    \/ \E b \in {"t1", "t2"} : \E u \in {[status |-> x] : x \in LeadStatuses} :
          UpdateLead(b, 1, u)
    \/ \E r \in 1..Len(reqs) : LeadCommit(r)

Spec == Init /\ [][Next]_vars

SpecA == InitWith({ScenarioArbitration}) /\ [][Next]_vars
SpecR == InitWith({ScenarioResume}) /\ [][Next]_vars
SpecL == InitWith({ScenarioLinear}) /\ [][Next]_vars
SpecP == InitWith({ScenarioParallel}) /\ [][Next]_vars
SpecB == InitWith({ScenarioBooking}) /\ [][Next]_vars
SpecT == InitWith({ScenarioTwoBookers}) /\ [][Next]_vars
SpecQ == InitWith({ScenarioPropose}) /\ [][Next]_vars
SpecD == InitWith({ScenarioDelay}) /\ [][NextD]_vars
SpecF == InitWith({ScenarioFan}) /\ [][Next]_vars
SpecS == InitWith({ScenarioSend}) /\ [][Next]_vars
SpecE == InitWith({ScenarioLead}) /\ [][NextE]_vars
SpecX == InitWith({ScenarioBlocked}) /\ [][NextX]_vars
SpecC == InitWith({ScenarioChat}) /\ [][Next]_vars
SpecG == InitWith({ScenarioQualify}) /\ [][NextG]_vars
SpecH == InitWith({ScenarioGuarded}) /\ [][NextG]_vars
SpecK == InitWith({ScenarioKeyword}) /\ [][Next]_vars
SpecW == InitWith({ScenarioTrigger}) /\ [][NextW]_vars
SpecV == InitWith({ScenarioQualify}) /\ [][NextV]_vars
SpecU == InitWith({ScenarioLead}) /\ [][NextU]_vars
SpecY == InitWith({ScenarioSlots}) /\ [][NextY]_vars
SpecM == InitWith({ScenarioMessage}) /\ [][NextM]_vars
SpecN == InitWith({ScenarioSlots}) /\ [][NextT]_vars
SpecI == InitWith({ScenarioSlots}) /\ [][NextI]_vars
SpecO == InitWith({ScenarioReply}) /\ [][Next]_vars
SpecZ == InitWith({ScenarioOwner}) /\ [][NextZ]_vars

\* ================================================================ claims
Done(r) == reqs[r].pc = "done"

Quiescent ==
    /\ queue = EmptyBag
    /\ inflight = {}
    /\ \A r \in 1..Len(reqs) : Done(r)

\* the participant of a trigger document: from_number, else user_id
Participant(trigger) ==
    IF trigger.from_number # None THEN trigger.from_number ELSE trigger.user_id

SameTenantAndParticipant(e, r) ==
    /\ execs[e].business_id = reqs[r].business_id
    /\ Participant(execs[e].context_data["trigger"]) = Participant(reqs[r].trigger)

\* ---------------------------------------------------------------- C1
\* C1: every inbound message that was handled produced exactly one of: a
\* workflow outcome (executions created or resumed, no fallback reply), a
\* fallback AI reply (no execution created or resumed), the blocked reply.
C1_ExactlyOneOutcome ==
    \A r \in 1..Len(reqs) :
        Done(r) =>
            Cardinality({ o \in {"workflow", "fallback", "blocked"} :
                \/ o = "workflow" /\ (reqs[r].created # {} \/ reqs[r].resumed)
                \/ o = "fallback" /\ reqs[r].fallback
                \/ o = "blocked" /\ reqs[r].blocked }) = 1

\* ---------------------------------------------------------------- C2
\* C2 (as claimed): a message resumes every execution that was suspended for
\* its tenant and participant when it was arbitrated, and no other.
C2_ResumedIffSameParticipant ==
    \A r \in 1..Len(reqs) :
        \A e \in 1..Len(execs) :
            (e \in reqs[r].candidates) <=> (e = reqs[r].target)

\* C2 (amended): an inbound message resumes at most one execution, and only
\* one that was suspended for the message's tenant and participant when the
\* message was arbitrated; it resumes one whenever such an execution exists,
\* and then starts no new execution; every other execution (other tenant,
\* other participant, or a further suspension of the same participant) keeps
\* its status, context and resume_payload.
C2_Arrival(r) ==
    LET matching == { e \in CommittedExecs :
                        /\ execs[e].status = "suspended"
                        /\ execs[e].business_id = reqs'[r].business_id
                        /\ Participant(execs[e].context_data["trigger"])
                              = Participant(reqs'[r].trigger) }
    IN /\ \A e \in 1..Len(execs) : execs'[e] = execs[e]
       /\ ~reqs'[r].blocked =>
            /\ (reqs'[r].pc = "resume") <=> (matching # {})
            /\ reqs'[r].pc = "resume" =>
                  /\ reqs'[r].target \in matching
                  /\ Len(execs') = Len(execs)

C2_Resumption(r) ==
    LET e == reqs[r].target
    IN /\ SameTenantAndParticipant(e, r)
       /\ execs'[e].status = "running"
       /\ Len(execs') = Len(execs)
       /\ \A o \in 1..Len(execs) : o # e => execs'[o] = execs[o]

C2_ResumeOnlySameParticipant ==
    [][ /\ Len(reqs') > Len(reqs) => C2_Arrival(Len(reqs'))
        /\ \A r \in 1..Len(reqs) :
              (reqs[r].pc = "resume" /\ reqs'[r].pc # "resume") => C2_Resumption(r)
      ]_vars

\* A reply resumed one execution of its participant while an execution of
\* another tenant or participant, started meanwhile, stays suspended.
C2_Witness ==
    \E r \in 1..Len(reqs) :
        /\ reqs[r].resumed
        /\ \E o \in CommittedExecs :
              /\ o # reqs[r].target
              /\ execs[o].status = "suspended"
              /\ ~SameTenantAndParticipant(o, r)

\* ---------------------------------------------------------------- C3
\* C3: arbitration per (tenant, participant) is serialized: one suspension of
\* an execution is resumed by exactly one message, so the successors of its
\* resume node are enqueued once.
C3_SuspensionResumedOnce ==
    \A r1, r2 \in 1..Len(reqs) :
        (r1 # r2 /\ reqs[r1].resumed /\ reqs[r2].resumed) =>
            ~ (/\ reqs[r1].target = reqs[r2].target
               /\ reqs[r1].payload.step_id = reqs[r2].payload.step_id)

\* ---------------------------------------------------------------- C4
\* C4: when an execution is suspended by a step, every key of that step's
\* output other than the signal and the resume point is in the execution
\* context with the output's value.
C4_SuspendMergesOutput ==
    \A st \in steps :
        LET ex == execs[st.execution_id]
        IN (/\ st.status = "suspended"
            /\ ex.status = "suspended"
            /\ ex.resume_payload.step_id = st.id) =>
              \A k \in DOMAIN st.returned \ {"orchestration_signal", "resume_node_id"} :
                  /\ k \in DOMAIN ex.context_data
                  /\ ex.context_data[k] = st.returned[k]

\* ---------------------------------------------------------------- C5
\* C5: in the flow start -> message -> wait_for_reply -> ai_extract ->
\* condition -> action, once all queued work is consumed every execution
\* has been suspended once and is waiting for its reply, or was resumed by
\* the reply and is completed with the extracted keys in its context.
SuspensionsOf(e) ==
    { st \in steps : st.execution_id = e /\ st.status = "suspended" }

ExtractedKeysOf(e) ==
    UNION { DOMAIN st.output_data :
              st \in { x \in steps : x.execution_id = e /\ x.node_id = "n4" } }

C5_SuspendedOnceThenCompleted ==
    Quiescent =>
        \A e \in CommittedExecs :
            /\ Cardinality(SuspensionsOf(e)) = 1
            /\ \/ execs[e].status = "suspended"
               \/ /\ execs[e].status = "completed"
                  /\ \E r \in 1..Len(reqs) : reqs[r].resumed /\ reqs[r].target = e
                  /\ ExtractedKeysOf(e) \subseteq DOMAIN execs[e].context_data

\* ---------------------------------------------------------------- C6
\* C6: an execution that is completed or failed is never changed again.
Terminal(status) == status \in {"completed", "failed"}

C6_TerminalImmutable ==
    [][ \A e \in 1..Len(execs) :
            Terminal(execs[e].status) => execs'[e] = execs[e] ]_vars

\* ---------------------------------------------------------------- C7
\* C7: every change of an execution's status is one of pending -> running,
\* running -> suspended, suspended -> running, running -> completed,
\* running -> failed.
LegalTransitions ==
    { <<"pending", "running">>, <<"running", "suspended">>,
      <<"suspended", "running">>, <<"running", "completed">>,
      <<"running", "failed">> }

C7_StatusLifecycle ==
    [][ \A e \in 1..Len(execs) :
            execs'[e].status # execs[e].status =>
                <<execs[e].status, execs'[e].status>> \in LegalTransitions ]_vars

\* ---------------------------------------------------------------- C8
\* C8: a consumed process_node task whose execution is completed, failed or
\* missing, or whose node is missing, is dropped: no step is added, nothing
\* runs, and no execution changes.
Droppable(t) ==
    \/ t.execution_id \notin CommittedExecs
    \/ Terminal(execs[t.execution_id].status)
    \/ ~ \E n \in nodes : n.id = t.node_id

C8_TerminalTaskDropped ==
    [][ \A t \in BagToSet(queue) :
            (CopiesIn(t, queue') < CopiesIn(t, queue) /\ Droppable(t)) =>
                /\ steps' = steps
                /\ inflight' = inflight
                /\ execs' = execs ]_vars

\* ---------------------------------------------------------------- C9
\* C9: the context of an execution holds the output keys of every completed
\* step of it, and latest_reply of every resume of it: no merge is lost to a
\* concurrent writer.
C9_NoLostUpdate ==
    /\ \A st \in steps :
          st.status = "completed" =>
              DOMAIN st.output_data
                  \subseteq DOMAIN execs[st.execution_id].context_data
    /\ \A r \in 1..Len(reqs) :
          reqs[r].resumed =>
              "latest_reply" \in DOMAIN execs[reqs[r].target].context_data

\* ---------------------------------------------------------------- C10
\* C10: a commit of a step or of a resume keeps every key of the execution
\* context with its value, except the keys of that step's output or of the
\* resume data.
KeysWrittenTo(e) ==
    UNION { DOMAIN a.output.doc :
              a \in { x \in inflight' \ inflight :
                        x.execution_id = e /\ x.phase = "dispatch" } }
    \cup (IF \E r \in 1..Len(reqs) :
                /\ reqs[r].pc = "resume"
                /\ reqs'[r].pc # "resume"
                /\ reqs[r].target = e
          THEN {"latest_reply", "latest_trigger"}
          ELSE {})

C10_MergeMonotone ==
    [][ \A e \in 1..Len(execs) :
            \A k \in DOMAIN execs[e].context_data :
                k \notin KeysWrittenTo(e) =>
                    /\ k \in DOMAIN execs'[e].context_data
                    /\ execs'[e].context_data[k] = execs[e].context_data[k] ]_vars

\* ---------------------------------------------------------------- C11
\* C11: every finished visit of an appointment_booking node either proposed
\* (the step is suspended and its output holds one to three pending_slots)
\* or confirmed (the step is completed, its input context held latest_reply
\* and pending_slots, and one appointment exists for the booked slot).
BookingSteps ==
    { st \in steps :
        /\ NodeById(st.node_id).type = "appointment_booking"
        /\ ~ \E a \in inflight : a.step = st.id }

AppointmentsAt(business_id, slot) ==
    { i \in 1..Len(appointments) :
        /\ appointments[i].business_id = business_id
        /\ appointments[i].start_at = slot }

C11_ProposeSuspendConfirmBooks ==
    \A st \in BookingSteps :
        \/ /\ st.status = "suspended"
           /\ "pending_slots" \in DOMAIN st.returned
           /\ Len(st.returned["pending_slots"]) \in 1..3
        \/ /\ st.status = "completed"
           /\ "booked_slot" \in DOMAIN st.output_data
           /\ Cardinality(AppointmentsAt(execs[st.execution_id].business_id,
                                         st.output_data["booked_slot"])) = 1

\* ---------------------------------------------------------------- C12
\* C12: no two appointments of one tenant with status scheduled or confirmed
\* overlap in time (every appointment of a type lasts the same time, so two
\* of them overlap exactly when they start together).
Active(apt) == apt.status \in {"scheduled", "confirmed"}

C12_NoDoubleBooking ==
    \A i, j \in 1..Len(appointments) :
        (/\ i # j
         /\ appointments[i].business_id = appointments[j].business_id
         /\ Active(appointments[i])
         /\ Active(appointments[j]))
            => appointments[i].start_at # appointments[j].start_at

\* C13: every completed time_delay step with N > 0 seconds whose activation
\* is over has each successor scheduled or executed exactly once, and not
\* started earlier than N seconds after the completion of the step, also
\* when the worker processes were restarted after that completion.
DelaySteps ==
    { st \in steps :
        /\ NodeById(st.node_id).type = "time_delay"
        /\ st.status = "completed"
        /\ NodeById(st.node_id).config.seconds > 0
        /\ ~ \E a \in inflight : a.step = st.id }

SuccessorsOf(node_id) == { x.target_id : x \in { y \in edges : y.source_id = node_id } }

StepsAt(execution_id, node_id) ==
    { st \in steps : st.execution_id = execution_id /\ st.node_id = node_id }

Scheduled(execution_id, node_id) ==
    { t \in BagToSet(queue) : t.execution_id = execution_id /\ t.node_id = node_id }

C13_DelayedOnce ==
    \A st \in DelaySteps : \A n \in SuccessorsOf(st.node_id) :
        LET N == NodeById(st.node_id).config.seconds
            waiting == Scheduled(st.execution_id, n)
            started == StepsAt(st.execution_id, n)
        IN /\ Cardinality(started)
                + Cardinality(waiting)
                = Cardinality(StepsAt(st.execution_id, st.node_id))
           /\ \A t \in waiting : CopiesIn(t, queue) = 1 /\ t.eta >= st.completed_at + N
           /\ \A s2 \in started : s2.started_at >= st.completed_at + N

\* C13 without a restart: the same, as long as no worker was restarted
C13_DelayedOnceNoRestart == restarts = 0 => C13_DelayedOnce

\* C14: a step whose node has a predecessor with a completed step in the
\* same execution starts with an input context that holds every key of the
\* output of such a predecessor step.
Producers(st) ==
    { s1 \in steps :
        /\ s1.execution_id = st.execution_id
        /\ s1.status = "completed"
        /\ st.node_id \in SuccessorsOf(s1.node_id) }

C14_InputHoldsPredecessorOutput ==
    \A st \in steps :
        Producers(st) # {} =>
            \E s1 \in Producers(st) : DOMAIN s1.output_data \subseteq DOMAIN st.input_data

\* C15: a step whose activation ended without completing or suspending it
\* (the executor raised) has status failed and an error text.
Ended(st) == ~ \E a \in inflight : a.step = st.id

C15_RaisedStepFailed ==
    \A st \in steps :
        (Ended(st) /\ st.status \notin {"completed", "suspended"}) =>
            (st.status = "failed" /\ st.error # None)

\* C16: the step of a send_message action ends completed with an
\* action_result, and the result says sent only for a message the channel
\* accepted.
SendSteps ==
    { st \in steps :
        /\ NodeById(st.node_id).type = "action"
        /\ NodeById(st.node_id).config.action_type = "send_message"
        /\ Ended(st) }

C16_SendFailureReported ==
    \A st \in SendSteps :
        /\ st.status = "completed"
        /\ "action_result" \in DOMAIN st.output_data
        /\ (st.output_data["action_result"] = "sent" => st.accepted)

\* C17: a workflow is stored only for a payload with exactly one node of
\* type start and with no edge to or from a node that is not in the payload.
WellFormed(wd) ==
    /\ Cardinality({ n \in wd.nodes : n.type = "start" }) = 1
    /\ \A x \in wd.edges :
          /\ x.source \in { n.id : n \in wd.nodes }
          /\ x.target \in { n.id : n \in wd.nodes }

C17_OnlyWellFormedStored ==
    \A sc \in Scenarios : \A wd \in sc.defs :
        WorkflowRow(wd) \in workflows => WellFormed(wd)

\* C18 as stated: an update_lead call creates one execution of an active
\* lead_event workflow of the tenant with trigger_config.status X when it
\* changes the status to X, and none otherwise.
LeadWorkflows(business_id) ==
    { wf \in workflows :
        /\ wf.business_id = business_id /\ wf.is_active
        /\ wf.trigger_type = "lead_event"
        /\ DOMAIN wf.trigger_config = {"status"} }

LeadRequests == { r \in 1..Len(reqs) : "old_status" \in DOMAIN reqs[r].trigger }

CreatedFor(r, wf) == { e \in reqs[r].created : execs[e].workflow_id = wf.id }

StatusChanged(r) == reqs[r].trigger.new_status # reqs[r].trigger.old_status

BlockedOnly(rq) ==
    /\ rq.blocked /\ rq.pc = "done"
    /\ ~rq.resumed /\ ~rq.fallback
    /\ rq.created = {} /\ rq.candidates = {}

C19_Arrival ==
    Len(reqs') = Len(reqs) + 1 =>
        LET rq == reqs'[Len(reqs')]
        IN business'[rq.business_id] \in {"expired", "suspended"} =>
              /\ BlockedOnly(rq)
              /\ execs' = execs /\ queue' = queue /\ messages' = messages

C19_BlockedSkipsArbitration ==
    /\ [](\A r \in 1..Len(reqs) : reqs[r].blocked => BlockedOnly(reqs[r]))
    /\ [][C19_Arrival]_vars

C19_Witness ==
    \E r \in 1..Len(reqs) : \E e \in CommittedExecs :
        /\ reqs[r].blocked /\ reqs[r].business_id = "t5"
        /\ execs[e].business_id = "t5" /\ execs[e].status = "suspended"

\* C20: the conversation of a stored message is the conversation of no other
\* (tenant, participant) pair, and the history of a tenant holds only rows of
\* that tenant, whatever participant id it is asked for.
Stored(r) == ~reqs[r].blocked

PairOf(r) == <<reqs[r].business_id, UserIdentifier(reqs[r].trigger)>>

ConversationOf(r) == ConvoId(reqs[r].business_id, UserIdentifier(reqs[r].trigger))

HistoryUsers == {"u1", "u2", "t1:u1", "t2:u1"}

Amount(v) ==
    CASE v = "int 10000" -> 10000
      [] v = "int 1000" -> 1000
      [] v = "str $10,000" -> 10000
      [] OTHER -> 0

\* the completed evaluations of a condition with one "true" and one "false"
\* edge, their dispatch over
TwoWaySteps ==
    { st \in steps :
        /\ NodeById(st.node_id).type = "condition"
        /\ { x.condition_value : x \in { y \in edges : y.source_id = st.node_id } }
              = {"true", "false"}
        /\ Cardinality({ y \in edges : y.source_id = st.node_id }) = 2
        /\ st.status = "completed"
        /\ ~ \E a \in inflight : a.step = st.id }

TargetOf(node_id, guard) ==
    (CHOOSE x \in edges : x.source_id = node_id /\ x.condition_value = guard).target_id

Visits(execution_id, node_id) ==
    Cardinality(StepsAt(execution_id, node_id))
        + Cardinality(Scheduled(execution_id, node_id))

\* C21: every evaluation of a condition with a "true" and a "false" edge
\* enqueues exactly one of the two targets, the "true" target when the
\* budget is greater than the configured 5000 and the "false" target otherwise
C21_OneBranchTaken ==
    \A st \in TwoWaySteps :
        LET holds == Amount(Get(st.input_data, "budget", None)) > 5000
            taken == TargetOf(st.node_id, IF holds THEN "true" ELSE "false")
            other == TargetOf(st.node_id, IF holds THEN "false" ELSE "true")
        IN /\ Visits(st.execution_id, taken) = 1
           /\ Visits(st.execution_id, other) = 0
           /\ \A t \in Scheduled(st.execution_id, taken) : CopiesIn(t, queue) = 1

\* a budget of 10000 took the "true" edge and a budget of 1000 the "false" one
C21_Witness ==
    \E s1 \in TwoWaySteps, s2 \in TwoWaySteps :
        /\ Get(s1.input_data, "budget", None) = "int 10000"
        /\ StepsAt(s1.execution_id, TargetOf(s1.node_id, "true")) # {}
        /\ Get(s2.input_data, "budget", None) = "int 1000"
        /\ StepsAt(s2.execution_id, TargetOf(s2.node_id, "false")) # {}

\* ------------------------------------------------------------------ C22
\* the completed steps whose dispatch is over
Settled ==
    { st \in steps :
        st.status = "completed" /\ ~ \E a \in inflight : a.step = st.id }

\* the outgoing edges to a target whose guard is absent or equals the text of
\* the condition_eval of the output
Taken(st, n) ==
    { x \in edges :
        /\ x.source_id = st.node_id
        /\ x.target_id = n
        /\ (Guarded(x) => x.condition_value = CondEval(st.output_data)) }

\* C22: after a completion every successor has one visit for each outgoing
\* edge to it whose guard is absent or equals str(output.condition_eval),
\* and no other visit (in workflows whose nodes have one predecessor)
C22_SelectedEnqueuedOnce ==
    \A st \in Settled : \A n \in SuccessorsOf(st.node_id) :
        Visits(st.execution_id, n) = Cardinality(Taken(st, n))

\* ------------------------------------------------------------------ C23
\* the active workflows of a tenant configured with a keyword only
KeywordWorkflows(business_id) ==
    { wf \in workflows :
        /\ wf.business_id = business_id /\ wf.is_active
        /\ wf.trigger_type \in {"keyword", "message_created"}
        /\ DOMAIN wf.trigger_config = {"keyword"} }

\* the inbound messages that reached trigger_workflow's search for workflows
FreshMessages ==
    { r \in 1..Len(reqs) :
        /\ "old_status" \notin DOMAIN reqs[r].trigger
        /\ ~reqs[r].blocked
        /\ reqs[r].candidates = {} }

\* C23: an inbound message starts a workflow configured with keyword K if and
\* only if K is a substring of the message text without regard to letter
\* case, whether the message came from the web or from WhatsApp
C23_KeywordStartsOnBothChannels ==
    \A r \in FreshMessages : \A wf \in KeywordWorkflows(reqs[r].business_id) :
        CreatedFor(r, wf) # {}
            <=> Contains(Lower(wf.trigger_config.keyword),
                         Lower(reqs[r].trigger.message_body))

\* ------------------------------------------------------------------ C24
\* the calls of trigger_workflow that reached the search for workflows
Searches == FreshMessages \cup { r \in LeadRequests : StatusChanged(r) }

EventOf(r) ==
    IF r \in LeadRequests THEN "lead_status_update" ELSE "message_created"

Compatible(event, trigger_type) ==
    \/ trigger_type = event
    \/ event = "message_created" /\ trigger_type \in {"keyword", "intent"}
    \/ event = "lead_status_update" /\ trigger_type = "lead_event"

KeyMatches(key, config, data) ==
    CASE key = "keyword" -> Contains(Lower(config.keyword), Lower(data.message_body))
      [] key = "intent" -> "intent" \in DOMAIN data /\ data.intent = config.intent
      [] key = "status" ->
            /\ "new_status" \in DOMAIN data
            /\ Lower(data.new_status) = Lower(config.status)

Considered(r, wf) ==
    /\ wf.business_id = reqs[r].business_id
    /\ wf.is_active
    /\ Compatible(EventOf(r), wf.trigger_type)

\* C24: trigger_workflow starts exactly the active workflows of the tenant
\* with a trigger type compatible with the event whose trigger_config has no
\* key that does not match the event, one execution each; an empty
\* trigger_config always matches
C24_StartsMatchingWorkflows ==
    \A r \in Searches : \A wf \in workflows :
        Cardinality(CreatedFor(r, wf)) =
            IF /\ Considered(r, wf)
               /\ \A key \in DOMAIN wf.trigger_config :
                     KeyMatches(key, wf.trigger_config, reqs[r].trigger)
            THEN 1 ELSE 0

\* the same for the events that do not come from WhatsApp
C24_ExceptWhatsApp ==
    \A r \in Searches : \A wf \in workflows :
        reqs[r].trigger.platform # "whatsapp" =>
        Cardinality(CreatedFor(r, wf)) =
            IF /\ Considered(r, wf)
               /\ \A key \in DOMAIN wf.trigger_config :
                     KeyMatches(key, wf.trigger_config, reqs[r].trigger)
            THEN 1 ELSE 0

\* ------------------------------------------------------------------ C25
\* a value that is null or empty
Empty(v) == v \in {None, "str ", "list []"}

\* C25: the exists operator gives "true" exactly for a resolved value that is
\* neither null nor empty; a null value gives "false" under every other
\* operator; the result is always "true" or "false"
C25_ExistsIffNonEmpty ==
    \A ev \in evals :
        /\ ev.result \in {"true", "false"}
        /\ ev.config.operator = "exists" =>
              (ev.result = "true" <=> ~Empty(ev.actual_value))
        /\ ev.config.operator # "exists" /\ ev.actual_value = None =>
              ev.result = "false"

\* ------------------------------------------------------------------ C26
\* the number a value stands for once all but digits and dots are dropped,
\* in hundredths; nothing is left of a value without a digit
Hundredths(v) ==
    CASE v \in {"int 10000", "str $10,000"} -> 1000000
      [] v = "int 1000" -> 100000
      [] v = "str 5000" -> 500000
      [] v = "str 1.10" -> 110
      [] OTHER -> 0

HasDigit(v) ==
    v \in {"int 10000", "int 1000", "str $10,000", "str 5000", "str 1.10",
           "str 1.2.3"}

\* two dots are left of this text: no number
NoNumber(v) == v = "str 1.2.3"

GreaterThanEvals ==
    { ev \in evals :
        ev.config.operator = "greater_than" /\ ev.actual_value # None }

\* C26 as stated: greater_than compares numerically when both operands parse
\* as numbers after the stripping, and as texts otherwise
C26_NumericElseText ==
    \A ev \in GreaterThanEvals :
        LET a == ev.actual_value
            t == ev.config.value
            numeric == /\ HasDigit(a) /\ ~NoNumber(a)
                       /\ HasDigit(t) /\ ~NoNumber(t)
        IN ev.result = "true" <=>
              IF numeric THEN Hundredths(a) > Hundredths(t)
              ELSE StrGreater(PyStr(a), PyStr(t))

\* C26: greater_than compares numerically, an operand without a digit
\* counting as 0, and compares the texts only when what is left of an
\* operand after the stripping is no number
C26_NumericUnlessNoNumber ==
    \A ev \in GreaterThanEvals :
        LET a == ev.actual_value
            t == ev.config.value
        IN ev.result = "true" <=>
              IF ~NoNumber(a) /\ ~NoNumber(t) THEN Hundredths(a) > Hundredths(t)
              ELSE StrGreater(PyStr(a), PyStr(t))

\* a text without a digit was compared as 0, and a text with two dots as text
C26_Witness ==
    /\ \E ev \in GreaterThanEvals :
          ev.actual_value = "str b" /\ ev.config.value = "str a" /\ ev.result = "false"
    /\ \E ev \in GreaterThanEvals :
          ev.actual_value = "str 1.2.3" /\ ev.config.value = "str 1.10"
              /\ ev.result = "true"

\* ------------------------------------------------------------------ C27
\* the extraction steps the worker is done with
ExtractSteps ==
    { st \in steps :
        /\ NodeById(st.node_id).type = "ai_extract"
        /\ st.status # "running"
        /\ ~ \E a \in inflight : a.step = st.id }

\* the reply was a JSON object with the fields of the schema
ObjectReply(st) == DOMAIN st.returned = NodeById(st.node_id).config.fields

\* C27: an extraction whose reply is no JSON object returns the
\* extraction_error document; its step is completed, the keys of the context
\* it started from are still in the context and its successors are enqueued
C27_ParseFailureContinues ==
    \A st \in ExtractSteps :
        ~ObjectReply(st) =>
            /\ st.returned = [extraction_error |-> "failed_to_parse_json"]
            /\ st.status = "completed"
            /\ DOMAIN st.input_data \subseteq
                  DOMAIN execs[st.execution_id].context_data
            /\ \A n \in SuccessorsOf(st.node_id) : Visits(st.execution_id, n) >= 1

\* ------------------------------------------------------------------ C28
\* the calls of update_lead for a lead of the calling tenant
LeadCalls == { r \in 1..Len(reqs) : "known" \in DOMAIN reqs[r] /\ reqs[r].known }

\* the LeadActivity rows a call appended for a field
LoggedFor(r, field) ==
    { i \in 1..Len(activities) :
        activities[i].call = r /\ activities[i].content.field = field }

\* C28: update_lead appends one LeadActivity of type <field>_change with the
\* old and the new value for each of status, value and tags whose incoming
\* value differs from the stored one, and none for a field that is absent
\* from the update or unchanged
C28_OneActivityPerChange ==
    \A r \in LeadCalls : \A i \in 1..Len(TrackedFields) :
        LET field == TrackedFields[i]
            differs == /\ field \in DOMAIN reqs[r].updates
                       /\ reqs[r].updates[field] # reqs[r].lead[field]
        IN /\ Cardinality(LoggedFor(r, field)) = IF differs THEN 1 ELSE 0
           /\ \A a \in LoggedFor(r, field) :
                 /\ activities[a].type = ChangeType(field)
                 /\ activities[a].content.old = reqs[r].lead[field]
                 /\ activities[a].content.new = reqs[r].updates[field]
                 /\ activities[a].lead_id = 1
                 /\ activities[a].business_id = reqs[r].business_id

\* one update changed the status and the value and left the tags as they
\* were: two activities; an update of another tenant logged nothing
C28_Witness ==
    /\ \E r \in LeadCalls :
          /\ DOMAIN reqs[r].updates = {"status", "value", "tags"}
          /\ LoggedFor(r, "status") # {} /\ LoggedFor(r, "value") # {}
          /\ LoggedFor(r, "tags") = {}
    /\ \E r \in 1..Len(reqs) :
          /\ "known" \in DOMAIN reqs[r] /\ ~reqs[r].known
          /\ \A i \in 1..Len(activities) : activities[i].call # r

\* ------------------------------------------------------------------ C29
DayTimes == 0..(2 * MaxTime)

Duration(ev) ==
    (CHOOSE t \in SlotTypes : t.id = ev.appointment_type_id).duration_minutes

\* the calls of get_available_slots for an appointment type of the tenant
SlotCalls ==
    { ev \in evals :
        \E t \in SlotTypes : t.id = ev.appointment_type_id /\ t.business_id = "t1" }

\* a start on the grid of an active rule of the tenant for the weekday, the
\* whole slot within the rule
OnGrid(ev, start) ==
    \E rule \in ev.rules :
        /\ rule.business_id = "t1" /\ rule.day_of_week = 0 /\ rule.is_active
        /\ \E k \in DayTimes : start = rule.start_time + k * Duration(ev)
        /\ start + Duration(ev) <= rule.end_time

\* some time of the slot lies within an appointment of the tenant that is
\* scheduled or confirmed
Taken29(ev, start) ==
    \E apt \in ev.appointments :
        /\ apt.business_id = "t1"
        /\ apt.status \in {"scheduled", "confirmed"}
        /\ \E u \in DayTimes :
              /\ start <= u /\ u < start + Duration(ev)
              /\ apt.start_at <= u /\ u < apt.end_at

Returned29(ev) == { ev.result[i] : i \in 1..Len(ev.result) }

MessageCalls == { c \in evals : "outcome" \in DOMAIN c }

Contactable(c) ==
    /\ c.lead_id \in DOMAIN leads
    /\ leads[c.lead_id].business_id = c.business_id
    /\ OrElse(leads[c.lead_id].phone, leads[c.lead_id].conversation_id) # None

MessagesOf(c) == { m \in BagToSet(messages) : "call" \in DOMAIN m /\ m.call = c.call }

ActivitiesOf(c) ==
    { i \in 1..Len(activities) :
        /\ activities[i].call = c.call
        /\ activities[i].type \in {"message_sent", "message_failed"} }

\* what every such call leaves: one Message that is sent or failed and one
\* LeadActivity of the matching type
OneMessageOneActivity(c) ==
    /\ Cardinality(MessagesOf(c)) = 1
    /\ Cardinality(ActivitiesOf(c)) = 1
    /\ \A m \in MessagesOf(c) : \A i \in ActivitiesOf(c) :
          /\ CopiesIn(m, messages) = 1
          /\ m.status \in {"sent", "failed"}
          /\ activities[i].type = IF m.status = "sent" THEN "message_sent"
                                  ELSE "message_failed"
          /\ activities[i].lead_id = c.lead_id

\* C30: send_lead_message for an existing lead with a contact persists
\* exactly one Message whose final status is sent when the channel send
\* succeeded and failed otherwise, never pending, and logs exactly one
\* LeadActivity, message_sent or message_failed, consistent with that status.
C30_SentIffSendSucceeded ==
    \A c \in MessageCalls : Contactable(c) =>
        /\ OneMessageOneActivity(c)
        /\ \A m \in MessagesOf(c) :
              m.status = IF c.outcome = "ok" THEN "sent" ELSE "failed"

\* the part that holds: the Message is final and the LeadActivity matches
\* it; the status is failed exactly when the send raised
C30_FinalAndLogged ==
    \A c \in MessageCalls :
        IF Contactable(c)
        THEN /\ OneMessageOneActivity(c)
             /\ \A m \in MessagesOf(c) :
                   m.status = IF c.outcome = "raised" THEN "failed" ELSE "sent"
        ELSE MessagesOf(c) = {} /\ ActivitiesOf(c) = {}


\* ---------------------------------------------------------------- C31
HydrateCalls == { e \in evals : "pieces" \in DOMAIN e }

\* what a path names in a context: a bare key the root value, else the value
\* of the trigger; trigger.k the value of the trigger; nothing otherwise
Named(context, path) ==
    LET trigger == IF "trigger" \in DOMAIN context THEN context.trigger ELSE EmptyDoc
    IN CASE Len(path) = 1 ->
              IF path[1] \in DOMAIN context /\ context[path[1]] # None
              THEN context[path[1]]
              ELSE IF path[1] \in DOMAIN trigger THEN trigger[path[1]] ELSE None
         [] Len(path) = 2 /\ path[1] = "trigger" ->
              IF path[2] \in DOMAIN trigger THEN trigger[path[2]] ELSE None
         [] OTHER -> None

\* a piece after hydration
Hydrated(piece, context) ==
    IF piece.kind = "placeholder" /\ Named(context, piece.path) # None
    THEN PyStr(Named(context, piece.path))
    ELSE piece.chars

RECURSIVE HydratedText(_, _)
HydratedText(pieces, context) ==
    IF pieces = << >> THEN << >>
    ELSE Hydrated(Pieces[Head(pieces)], context) \o HydratedText(Tail(pieces), context)

\* C31: hydrate_text replaces each placeholder whose path resolves to a
\* non-null value with the string form of the value and leaves the others
\* as they are; a bare key resolves to the root key, else to the key of the
\* trigger; an input that is no string is returned unchanged.
C31_Hydration ==
    \A e \in HydrateCalls :
        IF e.text.type # "str" THEN e.result = e.text
        ELSE (\A i \in 1..Len(e.pieces) : Pieces[e.pieces[i]].kind # "loose") =>
                /\ e.result.type = "str"
                /\ e.result.chars = HydratedText(e.pieces, HydrationContexts[e.context])

\* a value of the trigger replaces {{c}} while {{c.i}} stays
C31_Witness ==
    \E e \in HydrateCalls :
        /\ e.text.type = "str"
        /\ e.context = 2
        /\ e.pieces = <<1, 5>>
        /\ e.result.chars = <<"B", "{", "{", "c", ".", "i", "}", "}">>


\* ---------------------------------------------------------------- C32
GenerateCalls == { e \in evals : "provider" \in DOMAIN e }

FixedReplies ==
    {"unauthorized", "insufficient credits", "busy", "trouble connecting to the provider",
     "taking too long", "trouble processing", "trouble connecting to my service"}

\* C32: generate_response never raises: a message that fails the safety
\* screen returns the canned refusal without calling the provider, and every
\* provider failure returns a fixed fallback string.
C32_NeverRaises ==
    \A e \in GenerateCalls :
        /\ ~e.result.raised
        /\ e.user_message = "str Hack" => e.result.reply = "refusal" /\ ~e.result.called
        /\ e.result.called /\ e.provider # "choice" => e.result.reply \in FixedReplies

\* the part that holds: for the text of a message, with the key configured
C32_ForTexts ==
    \A e \in GenerateCalls :
        /\ e.result.called /\ e.provider # "choice" => e.result.reply \in FixedReplies
        /\ e.result.raised <=> e.api_key /\ e.user_message \in {"int 1000", None}
        /\ e.api_key /\ e.user_message = "str Hack" =>
              e.result.reply = "refusal" /\ ~e.result.called
        /\ e.user_message = "str Hack" => ~e.result.called


\* ---------------------------------------------------------------- C33
\* the tasks a resume at a node has to send: one for each edge that leaves
\* the node without a condition
SuccessorTasks(e, node_id) ==
    LET out == { x \in edges : x.source_id = node_id /\ ~Guarded(x) }
        targets == { x.target_id : x \in out }
    IN [t \in { Task(e, n) : n \in targets } |->
          Cardinality({ x \in out : x.target_id = t.node_id })]

ResumedBy(r) == reqs[r].pc = "resume" /\ reqs'[r].pc # "resume"

\* C33: a resume sets the execution to running, clears resume_payload, adds
\* latest_reply and latest_trigger to the context and enqueues the successors
\* of the recorded resume node, and no task for the waiting node itself.
C33_ResumeEffect ==
    [][\A r \in 1..Len(reqs) : ResumedBy(r) =>
          LET e == reqs[r].target
              body == OrElseText(reqs[r].trigger.message_body, reqs[r].trigger.message)
          IN /\ execs'[e].status = "running"
             /\ execs'[e].resume_payload = NoPayload
             /\ "latest_reply" \in DOMAIN execs'[e].context_data
             /\ "latest_trigger" \in DOMAIN execs'[e].context_data
             /\ execs'[e].context_data.latest_reply = body
             /\ execs'[e].context_data.latest_trigger = reqs[r].trigger
             /\ queue' = queue (+) SuccessorTasks(e, reqs[r].payload.node_id)
             /\ \A t \in BagToSet(queue') :
                   t.execution_id = e /\ t.node_id = reqs[r].payload.node_id =>
                      CopiesIn(t, queue') = CopiesIn(t, queue)
             /\ steps' = steps]_vars

\* a reply has resumed an execution whose waiting node has a successor
C33_Witness ==
    \E r \in 1..Len(reqs) :
        /\ reqs[r].resumed
        /\ reqs[r].pc = "done"
        /\ \E x \in edges : x.source_id = reqs[r].payload.node_id


\* ---------------------------------------------------------------- C34
\* what is still at work for an execution: a queued task, an activation of a
\* worker, a step in status running
AtWork(e) ==
    \/ \E t \in BagToSet(queue) : t.execution_id = e
    \/ \E a \in inflight : a.execution_id = e
    \/ \E st \in steps : st.execution_id = e /\ st.status = "running"

\* C34: while an execution is suspended no node step of it is running or
\* queued; it goes on only through a later inbound message of its
\* participant or a scheduled timer.
C34_SuspendedIsIdle ==
    \A e \in 1..Len(execs) : execs[e].status = "suspended" => ~AtWork(e)


\* ---------------------------------------------------------------- C35
\* the requests whose call of trigger_workflow ran its loop in this step
Triggered(r) == r > Len(reqs) \/ reqs[r].created # reqs'[r].created

\* C35: the list trigger_workflow returns holds exactly the ids of the
\* executions the call created, each created with the context
\* {trigger, business_id} and with its start node enqueued; no execution is
\* created that is not returned.
C35_ReturnsWhatItCreates ==
    [][\A r \in 1..Len(reqs') : Triggered(r) =>
          /\ reqs'[r].created = (1..Len(execs')) \ (1..Len(execs))
          /\ reqs'[r].returned = reqs'[r].created
          /\ \A e \in reqs'[r].created :
                /\ execs'[e].context_data =
                      [trigger |-> reqs'[r].trigger, business_id |-> reqs'[r].business_id]
                /\ \E n \in nodes :
                      /\ n.type = "start"
                      /\ n.workflow_id = execs'[e].workflow_id
                      /\ CopiesIn(Task(e, n.id), queue') = CopiesIn(Task(e, n.id), queue) + 1]_vars


\* ---------------------------------------------------------------- C36
\* the tasks a worker takes in this step
Consumed(t) == CopiesIn(t, queue') < CopiesIn(t, queue)

\* C36: the start-node task of a new execution is never consumed before the
\* execution is committed, so that every execution returned gets a step for
\* its start node.
C36_ConsumedAfterCommit ==
    [][\A t \in BagToSet(queue) : Consumed(t) =>
          /\ t.execution_id \in CommittedExecs
          /\ \E st \in steps' :
                st.execution_id = t.execution_id /\ st.node_id = t.node_id]_vars


\* ---------------------------------------------------------------- C37
MarkedCompleted(e) == execs[e].status # "completed" /\ execs'[e].status = "completed"

\* C37: an execution is marked completed only when no task of it is queued
\* or running: the first branch that ends does not complete the execution
\* while another branch is in flight, delayed or suspended.
C37_CompletedWhenAllDone ==
    [][\A e \in 1..Len(execs) : MarkedCompleted(e) =>
          /\ execs[e].status # "suspended"
          /\ \A t \in BagToSet(queue') : t.execution_id # e
          /\ \A a \in inflight' : a.execution_id # e]_vars


\* ---------------------------------------------------------------- C38
\* a message found a suspension in this step, or its resume is written
Resuming(r) ==
    \/ r > Len(reqs) /\ reqs'[r].pc = "resume"
    \/ r <= Len(reqs) /\ ResumedBy(r)

\* C38: one inbound message resumes at most one suspended execution: of the
\* executions suspended for its tenant and participant one is resumed, every
\* other execution keeps its status, context and resume_payload, and no new
\* execution is started for the message.
C38_ResumesOne ==
    [][\A r \in 1..Len(reqs') : Resuming(r) =>
          LET e == reqs'[r].target
          IN /\ Len(execs') = Len(execs)
             /\ reqs'[r].created = {}
             /\ e \in reqs'[r].candidates
             /\ execs[e].business_id = reqs'[r].business_id
             /\ ExUser(execs[e]) = UserIdentifier(reqs'[r].trigger)
             /\ \A x \in 1..Len(execs) : x # e => execs'[x] = execs[x]
             /\ r <= Len(reqs) => execs'[e].status = "running"]_vars

\* a message of a participant with two suspended executions resumed one of
\* them, and the other is still suspended
C38_Witness ==
    \E r \in 1..Len(reqs) :
        /\ reqs[r].resumed
        /\ reqs[r].pc = "done"
        /\ \E x \in reqs[r].candidates :
              /\ x # reqs[r].target
              /\ execs[x].status = "suspended"
              /\ execs[x].resume_payload # NoPayload


\* ---------------------------------------------------------------- C39
\* the call recorded in this step names a workflow of another business
ForeignCall(r) ==
    /\ r = Len(reqs) + 1
    /\ "op" \in DOMAIN reqs'[r]
    /\ \E w \in workflows :
          w.id = reqs'[r].workflow_id /\ w.business_id # reqs'[r].business_id

\* C39: delete_workflow and trigger_specific_workflow called with the id of
\* a workflow of another tenant change nothing (no workflow deleted, no
\* execution created, no task enqueued) and return False and None.
C39_ForeignIdChangesNothing ==
    [][\A r \in 1..Len(reqs') : ForeignCall(r) =>
          /\ ~reqs'[r].ok
          /\ reqs'[r].returned = {}
          /\ reqs'[r].created = {}
          /\ UNCHANGED <<workflows, nodes, edges, execs, steps, queue, inflight>>]_vars

\* both calls were made with the id of another tenant's workflow, which is
\* still there
C39_Witness ==
    \E r, s \in 1..Len(reqs) :
        /\ "op" \in DOMAIN reqs[r] /\ reqs[r].op = "delete"
        /\ "op" \in DOMAIN reqs[s] /\ reqs[s].op = "trigger"
        /\ reqs[r].business_id = "t2" /\ reqs[r].workflow_id = "ask"
        /\ reqs[s].business_id = "t2" /\ reqs[s].workflow_id = "ask"
        /\ \E w \in workflows : w.id = "ask" /\ w.business_id = "t1"

====
